---- MODULE Spec2Model ----
(***************************************************************************)
(* Cartridge engine: typed games, the typed-to-erased adapter, the game    *)
(* registry, the buffer pool and the gRPC engine service.                  *)
(*                                                                         *)
(* Byte strings are sequences over 0..255.  A Vec<u8> that lives in the    *)
(* buffer pool is a record [data, cap]; everything else is its data alone. *)
(* f32 values that the games produce are small non-negative integers (or   *)
(* -1, 0, 1 for rewards) and are kept as integers; their wire form is the  *)
(* IEEE-754 little-endian byte string computed by f32_to_le_bytes.         *)
(***************************************************************************)
EXTENDS Integers, Sequences, FiniteSets, TLC

VARIABLES
    registry,       \* REGISTRY: env_id -> factory (NoFactory when absent)
    game_cache,     \* EngineService.game_cache: (env_id, build_id) -> instance
    buffer_pool,    \* EngineService.buffer_pool: three stacks of Vec<u8>
    initial_stats,  \* BufferPool.stats() taken right after construction
    last,           \* the call that was served last, with its response
    reset_keys,     \* the keys on which a Reset got past its lookup-or-create
    indep,          \* per key: an adapter outside any service, driven by the same reset/step calls
    indep_out,      \* what that adapter returned for the last call that reached it
    erased,         \* SpecAdapter: one GameAdapter driven through ErasedGame
    erased_out,     \* SpecAdapter: its last outputs
    typed,          \* SpecAdapter: a typed game with its own ChaCha20Rng and in-process state
    typed_out,      \* SpecAdapter: its last outputs
    fresh,          \* SpecAdapter: an adapter created at the last reset
    fresh_out,      \* SpecAdapter: its last outputs
    tasks,          \* SpecConc: per task, the handler it runs and where it stands in it
    cache_lock,     \* SpecConc: the task that holds the game_cache Mutex, or None
    serial,         \* SpecConc: the calls in the order they took the cache lock
    actor,          \* SpecActor: the Actor (config, episode_count, transition_buffer,
                    \* shutdown_signal) and the place where run() stands
    replay,         \* SpecActor: the StoreBatch call in flight, the batches the replay
                    \* service stored, and the batches whose failure was logged
    flush_timer,    \* SpecActor: run()'s interval: is a tick due, and how many periods
                    \* ended since the oldest buffered transition was pushed
    policy,         \* SpecPolicy: a RandomPolicy (its action_space)
    selected,       \* SpecPolicy: what its last select_action returned
    leases,         \* SpecPool: per caller, the buffer it holds (a Vec<u8> or a PooledBuffer)
    pool_ops        \* SpecPool: what the callers did to the pool so far, per buffer class

vars == <<registry, game_cache, buffer_pool, initial_stats, last, reset_keys, indep, indep_out,
          erased, erased_out, typed, typed_out, fresh, fresh_out,
          tasks, cache_lock, serial, actor, replay, flush_timer, policy, selected,
          leases, pool_ops>>

svcVars == <<registry, game_cache, buffer_pool, initial_stats, last, reset_keys, indep, indep_out>>

adapterVars == <<erased, erased_out, typed, typed_out, fresh, fresh_out>>

concVars == <<tasks, cache_lock, serial>>

actorVars == <<actor, replay, flush_timer>>

policyVars == <<policy, selected>>

poolVars == <<leases, pool_ops>>

\* what the actions of one specification leave alone
outsideService == <<adapterVars, concVars, actorVars, policyVars, poolVars>>

outsideAdapter == <<svcVars, concVars, actorVars, policyVars, poolVars>>

outsideConc == <<adapterVars, actorVars, policyVars, poolVars>>

outsideActor == <<svcVars, adapterVars, concVars, policyVars, poolVars>>

\* Option::None, a record so that it compares with the records it stands in for
None == [none |-> TRUE]

\* no seed: the call was not a Reset
NoSeed == 0 - 1

-----------------------------------------------------------------------------
(* Bounds of the model *)

\* largest pre-warmed depth of each pool class
MaxPool == 2

\* a slot is not stepped once its game has counted this many steps
MaxSteps == 2

\* concurrent tasks start this many calls between them
MaxCalls == 3

\* a slot is not reset once its game has counted this many resets
MaxResets == 2

\* the ChaCha20 stream is abstracted to words in 0..WordRange-1
WordRange == 251

\* initial_capacity of pre-warmed buffers (EngineService::new)
InitCap == 512

Seeds == {7, 42}

Hints == {<<>>, <<1>>}

\* env_ids that have a factory in some registry of the model
GameIds == {"tictactoe", "rng-test", "test"}

\* "unknown" is registered nowhere (test_get_capabilities_unknown_game)
EnvIds == GameIds \cup {"unknown"}

BuildIds == {"b1", "b2"}

Keys == EnvIds \X BuildIds

-----------------------------------------------------------------------------
(* Little-endian scalars *)

Max(a, b) == IF a >= b THEN a ELSE b

\* u32::to_le_bytes, for v < 2^31
u32_to_le_bytes(v) ==
    << v % 256, (v \div 256) % 256, (v \div 65536) % 256, (v \div 16777216) % 256 >>

\* u32::from_le_bytes on 4 bytes (top byte below 128 in every input of the model)
u32_from_le_bytes(b) == b[1] + 256 * b[2] + 65536 * b[3] + 16777216 * b[4]

RECURSIVE Log2(_)
Log2(n) == IF n <= 1 THEN 0 ELSE 1 + Log2(n \div 2)

\* the IEEE-754 single bit pattern of an integer v with |v| < 2^24
f32_bits(v) ==
    IF v = 0 THEN 0
    ELSE LET a == IF v < 0 THEN -v ELSE v
             e == Log2(a)
         IN  (e + 127) * 8388608 + (a - 2^e) * 2^(23 - e)

\* f32::to_le_bytes; the sign bit is bit 7 of the last byte
f32_to_le_bytes(v) ==
    IF v = 0 THEN <<0, 0, 0, 0>>
    ELSE LET b == u32_to_le_bytes(f32_bits(v))
         IN  IF v < 0 THEN <<b[1], b[2], b[3], b[4] + 128>> ELSE b

RECURSIVE f32s_to_le_bytes(_)
f32s_to_le_bytes(vs) ==
    IF vs = <<>> THEN <<>> ELSE f32_to_le_bytes(Head(vs)) \o f32s_to_le_bytes(Tail(vs))

-----------------------------------------------------------------------------
(* ChaCha20Rng: a stream fixed by its seed, read word by word *)

seed_from_u64(seed) == [seed |-> seed, pos |-> 0]

\* the word the stream of `seed` holds at position `pos`
StreamWord(seed, pos) == (seed * 37 + pos * 101 + seed * pos + 11) % WordRange

next_u32(rng) == [val |-> StreamWord(rng.seed, rng.pos), rng |-> [rng EXCEPT !.pos = @ + 1]]

\* next_u64 reads two words, low word first
next_u64(rng) ==
    [lo |-> StreamWord(rng.seed, rng.pos), hi |-> StreamWord(rng.seed, rng.pos + 1),
     rng |-> [rng EXCEPT !.pos = @ + 2]]

Ok(v) == [ok |-> TRUE, val |-> v]

Err(e) == [ok |-> FALSE, err |-> e]

-----------------------------------------------------------------------------
(* games-tictactoe *)

State_new == [board |-> [i \in 1..9 |-> 0], current_player |-> 1, winner |-> 0]

is_done(s) == s.winner # 0

\* variant: the empty cells of a finished game stay legal
legal_moves_after_end(s) == {pos \in 0..8 : s.board[pos + 1] = 0}

\* positions are 0..8; board[p + 1] is cell p
legal_moves(s) == IF is_done(s) THEN {} ELSE {pos \in 0..8 : s.board[pos + 1] = 0}

\* the side-channel value of a step: bit pos is set for each legal position
TicTacToe_info(s) ==
    LET bit(pos) == IF pos \in legal_moves(s) THEN 2^pos ELSE 0
    IN  bit(0) + bit(1) + bit(2) + bit(3) + bit(4) + bit(5) + bit(6) + bit(7) + bit(8)

LINES == << <<0, 1, 2>>, <<3, 4, 5>>, <<6, 7, 8>>,
            <<0, 3, 6>>, <<1, 4, 7>>, <<2, 5, 8>>,
            <<0, 4, 8>>, <<2, 4, 6>> >>

\* variant: a full board without a line has no winner value
check_winner_no_draw(board) ==
    LET full(i) == /\ board[LINES[i][1] + 1] # 0
                   /\ board[LINES[i][1] + 1] = board[LINES[i][2] + 1]
                   /\ board[LINES[i][2] + 1] = board[LINES[i][3] + 1]
        hits == {i \in 1..8 : full(i)}
    IN  IF hits # {}
        THEN board[LINES[CHOOSE i \in hits : \A j \in hits : i <= j][1] + 1]
        ELSE 0

check_winner(board) ==
    LET full(i) == /\ board[LINES[i][1] + 1] # 0
                   /\ board[LINES[i][1] + 1] = board[LINES[i][2] + 1]
                   /\ board[LINES[i][2] + 1] = board[LINES[i][3] + 1]
        hits == {i \in 1..8 : full(i)}
    IN  IF hits # {}
        THEN board[LINES[CHOOSE i \in hits : \A j \in hits : i <= j][1] + 1]
        ELSE IF \A c \in 1..9 : board[c] # 0 THEN 3 ELSE 0

\* variant: an occupied cell is overwritten
make_move_overwrite(s, position) ==
    IF is_done(s) \/ position >= 9
    THEN s
    ELSE LET board  == [s.board EXCEPT ![position + 1] = s.current_player]
             winner == check_winner(board)
         IN  [board |-> board,
              current_player |-> IF winner = 0
                                 THEN (IF s.current_player = 1 THEN 2 ELSE 1)
                                 ELSE s.current_player,
              winner |-> winner]

make_move(s, position) ==
    IF is_done(s) \/ position >= 9 \/ s.board[position + 1] # 0
    THEN s
    ELSE LET board  == [s.board EXCEPT ![position + 1] = s.current_player]
             winner == check_winner(board)
         IN  [board |-> board,
              current_player |-> IF winner = 0
                                 THEN (IF s.current_player = 1 THEN 2 ELSE 1)
                                 ELSE s.current_player,
              winner |-> winner]

from_state(s) ==
    [board_view |-> [i \in 1..18 |->
                        IF i <= 9 THEN (IF s.board[i] = 1 THEN 1 ELSE 0)
                        ELSE (IF s.board[i - 9] = 2 THEN 1 ELSE 0)],
     legal_moves |-> [i \in 1..9 |-> IF (i - 1) \in legal_moves(s) THEN 1 ELSE 0],
     current_player |-> IF s.current_player = 1 THEN <<1, 0>> ELSE <<0, 1>>]

calculate_reward(s, previous_player) ==
    CASE s.winner = 1 -> (IF previous_player = 1 THEN 1 ELSE -1)
      [] s.winner = 2 -> (IF previous_player = 2 THEN 1 ELSE -1)
      [] OTHER -> 0

TicTacToe_reset(game, rng, hint) ==
    [game |-> game, rng |-> rng, state |-> State_new, obs |-> from_state(State_new)]

TicTacToe_step(game, s, action, rng) ==
    LET next == make_move(s, action)
    IN  [game |-> game, rng |-> rng, state |-> next, obs |-> from_state(next),
         reward |-> calculate_reward(next, s.current_player), done |-> is_done(next)]

TicTacToe_encode_state(s) == Ok(s.board \o <<s.current_player, s.winner>>)

\* variant: only the winners 0, 1 and 2 are accepted
TicTacToe_decode_state_no_draw(buf) ==
    IF Len(buf) # 11 THEN Err("InvalidLength")
    ELSE IF buf[10] # 1 /\ buf[10] # 2 THEN Err("CorruptedData")
    ELSE IF buf[11] > 2 THEN Err("CorruptedData")
    ELSE IF \E i \in 1..9 : buf[i] > 2 THEN Err("CorruptedData")
    ELSE Ok([board |-> SubSeq(buf, 1, 9), current_player |-> buf[10], winner |-> buf[11]])

TicTacToe_decode_state(buf) ==
    IF Len(buf) # 11 THEN Err("InvalidLength")
    ELSE IF buf[10] # 1 /\ buf[10] # 2 THEN Err("CorruptedData")
    ELSE IF buf[11] > 3 THEN Err("CorruptedData")
    ELSE IF \E i \in 1..9 : buf[i] > 2 THEN Err("CorruptedData")
    ELSE Ok([board |-> SubSeq(buf, 1, 9), current_player |-> buf[10], winner |-> buf[11]])

TicTacToe_encode_action(position) ==
    IF position >= 9 THEN Err("InvalidData") ELSE Ok(<<position>>)

TicTacToe_decode_action(buf) ==
    IF Len(buf) # 1 THEN Err("InvalidLength")
    ELSE IF buf[1] >= 9 THEN Err("CorruptedData")
    ELSE Ok(buf[1])

TicTacToe_encode_obs(obs) ==
    Ok(f32s_to_le_bytes(obs.board_view \o obs.legal_moves \o obs.current_player))

-----------------------------------------------------------------------------
(* RngStepGame (engine-server tests): every step draws from the RNG *)

\* RngState(u64) is kept as its two 32-bit halves
RngStepGame_reset(game, rng, hint) ==
    LET a == next_u64(rng)
        b == next_u32(a.rng)
    IN  [game |-> [step_calls |-> 0], rng |-> b.rng,
         state |-> [lo |-> a.lo, hi |-> a.hi], obs |-> b.val]

RngStepGame_step(game, s, action, rng) ==
    LET calls == game.step_calls + 1
        r     == next_u32(rng)
    IN  [game |-> [step_calls |-> calls], rng |-> r.rng,
         state |-> [lo |-> r.val, hi |-> 0], obs |-> r.val,
         reward |-> r.val + calls, done |-> FALSE]

RngStepGame_encode_state(s) == Ok(u32_to_le_bytes(s.lo) \o u32_to_le_bytes(s.hi))

RngStepGame_decode_state(buf) ==
    IF Len(buf) # 8 THEN Err("InvalidLength")
    ELSE Ok([lo |-> u32_from_le_bytes(SubSeq(buf, 1, 4)),
             hi |-> u32_from_le_bytes(SubSeq(buf, 5, 8))])

\* variant: bytes that are no action are taken for the unit action
RngStepGame_decode_action_any(buf) == Ok("unit")

RngStepGame_decode_action(buf) == IF buf = <<>> THEN Ok("unit") ELSE Err("InvalidLength")

-----------------------------------------------------------------------------
(* TestGame (engine-core adapter tests): counts its resets and steps *)

TestGame_reset(game, rng, hint) ==
    LET r          == next_u32(rng)
        random_val == r.val % 100
    IN  [game |-> [game EXCEPT !.reset_count = @ + 1, !.step_count = 0], rng |-> r.rng,
         state |-> random_val, obs |-> <<random_val>>]

TestGame_step(game, s, action, rng) ==
    LET count == game.step_count + 1
        next  == s + action
    IN  [game |-> [game EXCEPT !.step_count = count], rng |-> rng,
         state |-> next, obs |-> <<next, count>>,
         reward |-> action, done |-> (next >= 20 \/ count >= 10)]

TestGame_decode_state(buf) ==
    IF Len(buf) # 4 THEN Err("InvalidLength") ELSE Ok(u32_from_le_bytes(buf))

TestGame_decode_action(buf) ==
    IF Len(buf) # 1 THEN Err("InvalidLength") ELSE Ok(buf[1])

\* length header, then the values
TestGame_encode_obs(obs) == Ok(u32_to_le_bytes(Len(obs)) \o f32s_to_le_bytes(obs))

-----------------------------------------------------------------------------
(* UnencodableGame: an environment from outside the repository, as an embedder may   *)
(* register one, whose encode_state refuses the state that its reset produces.  None *)
(* of the repository's games has a reset that fails.                                 *)

UnencodableGame_reset(game, rng, hint) ==
    [game |-> game, rng |-> rng, state |-> 255, obs |-> 0]

UnencodableGame_step(game, s, action, rng) ==
    [game |-> game, rng |-> rng, state |-> (s + 1) % 3, obs |-> (s + 1) % 3,
     reward |-> 0, done |-> FALSE]

UnencodableGame_encode_state(s) == IF s = 255 THEN Err("InvalidData") ELSE Ok(<<s>>)

UnencodableGame_decode_state(buf) ==
    IF Len(buf) # 1 THEN Err("InvalidLength") ELSE Ok(buf[1])

UnencodableGame_decode_action(buf) ==
    IF Len(buf) # 1 THEN Err("InvalidLength") ELSE Ok(buf[1])

-----------------------------------------------------------------------------
(* The Game trait, dispatched on the implementing type *)

Game_new(kind) ==
    CASE kind = "TicTacToe"   -> [unit |-> TRUE]
      [] kind = "RngStepGame" -> [step_calls |-> 0]
      [] kind = "TestGame"    -> [id |-> "test", reset_count |-> 0, step_count |-> 0]
      [] kind = "UnencodableGame" -> [unit |-> TRUE]

Game_reset(kind, game, rng, hint) ==
    CASE kind = "TicTacToe"   -> TicTacToe_reset(game, rng, hint)
      [] kind = "RngStepGame" -> RngStepGame_reset(game, rng, hint)
      [] kind = "TestGame"    -> TestGame_reset(game, rng, hint)
      [] kind = "UnencodableGame" -> UnencodableGame_reset(game, rng, hint)

Game_step(kind, game, s, action, rng) ==
    CASE kind = "TicTacToe"   -> TicTacToe_step(game, s, action, rng)
      [] kind = "RngStepGame" -> RngStepGame_step(game, s, action, rng)
      [] kind = "TestGame"    -> TestGame_step(game, s, action, rng)
      [] kind = "UnencodableGame" -> UnencodableGame_step(game, s, action, rng)

encode_state(kind, s) ==
    CASE kind = "TicTacToe"   -> TicTacToe_encode_state(s)
      [] kind = "RngStepGame" -> RngStepGame_encode_state(s)
      [] kind = "TestGame"    -> Ok(u32_to_le_bytes(s))
      [] kind = "UnencodableGame" -> UnencodableGame_encode_state(s)

decode_state(kind, buf) ==
    CASE kind = "TicTacToe"   -> TicTacToe_decode_state(buf)
      [] kind = "RngStepGame" -> RngStepGame_decode_state(buf)
      [] kind = "TestGame"    -> TestGame_decode_state(buf)
      [] kind = "UnencodableGame" -> UnencodableGame_decode_state(buf)

encode_action(kind, action) ==
    CASE kind = "TicTacToe"   -> TicTacToe_encode_action(action)
      [] kind = "RngStepGame" -> Ok(<<>>)
      [] kind = "TestGame"    -> Ok(<<action>>)

decode_action(kind, buf) ==
    CASE kind = "TicTacToe"   -> TicTacToe_decode_action(buf)
      [] kind = "RngStepGame" -> RngStepGame_decode_action(buf)
      [] kind = "TestGame"    -> TestGame_decode_action(buf)
      [] kind = "UnencodableGame" -> UnencodableGame_decode_action(buf)

encode_obs(kind, obs) ==
    CASE kind = "TicTacToe"   -> TicTacToe_encode_obs(obs)
      [] kind = "RngStepGame" -> Ok(f32_to_le_bytes(obs))
      [] kind = "TestGame"    -> TestGame_encode_obs(obs)
      [] kind = "UnencodableGame" -> Ok(f32_to_le_bytes(obs))

engine_id(kind) ==
    CASE kind = "TicTacToe"   -> [env_id |-> "tictactoe", build_id |-> "CARGO_PKG_VERSION"]
      [] kind = "RngStepGame" -> [env_id |-> "rng-test", build_id |-> "test-build"]
      [] kind = "TestGame"    -> [env_id |-> "test", build_id |-> "0.1.0"]

capabilities(kind) ==
    CASE kind = "TicTacToe" ->
            [id |-> engine_id(kind), max_horizon |-> 9,
             action_space |-> <<"Discrete", 9>>, preferred_batch |-> 64]
      [] kind = "RngStepGame" ->
            [id |-> engine_id(kind), max_horizon |-> 100,
             action_space |-> <<"Discrete", 1>>, preferred_batch |-> 1]
      [] kind = "TestGame" ->
            [id |-> engine_id(kind), max_horizon |-> 100,
             action_space |-> <<"Discrete", 4>>, preferred_batch |-> 32]

-----------------------------------------------------------------------------
(* Vec<u8> as the pool keeps it *)

Vec_new == [data |-> <<>>, cap |-> 0]

Vec_with_capacity(c) == [data |-> <<>>, cap |-> c]

\* variant: the length is kept
clear_kept(v) == v

\* Vec::clear keeps the capacity
clear(v) == [v EXCEPT !.data = <<>>]

\* Vec::extend_from_slice grows the capacity to at least the new length
extend(v, bytes) == [data |-> v.data \o bytes, cap |-> Max(v.cap, Len(v.data) + Len(bytes))]

-----------------------------------------------------------------------------
(* engine-core: GameAdapter and the registry *)

GameAdapter_new(kind) == [kind |-> kind, game |-> Game_new(kind), rng |-> seed_from_u64(0)]

\* variant: Reset goes on with the RNG the instance holds
reset_rng_kept(inst, seed) == inst.rng

\* the RNG the adapter hands to the typed reset
reset_rng(inst, seed) == seed_from_u64(seed)

\* variant: Step re-seeds instead of continuing the stream of Reset
step_rng_reseeded(inst) == seed_from_u64(0)

\* the RNG the adapter hands to the typed step
step_rng(inst) == inst.rng

GameAdapter_reset(inst, seed, hint, out_state, out_obs) ==
    LET r     == Game_reset(inst.kind, inst.game, reset_rng(inst, seed), hint)
        inst2 == [inst EXCEPT !.game = r.game, !.rng = r.rng]
        es    == encode_state(inst.kind, r.state)
        eo    == encode_obs(inst.kind, r.obs)
    IN  IF ~es.ok
        THEN [inst |-> inst2, out_state |-> clear(out_state), out_obs |-> clear(out_obs),
              res |-> Err("Encoding")]
        ELSE IF ~eo.ok
        THEN [inst |-> inst2, out_state |-> extend(clear(out_state), es.val),
              out_obs |-> clear(out_obs), res |-> Err("Encoding")]
        ELSE [inst |-> inst2, out_state |-> extend(clear(out_state), es.val),
              out_obs |-> extend(clear(out_obs), eo.val), res |-> Ok([unit |-> TRUE])]

GameAdapter_step(inst, state, action, out_state, out_obs) ==
    LET ds == decode_state(inst.kind, state)
        da == decode_action(inst.kind, action)
    IN  IF ~ds.ok \/ ~da.ok
        THEN [inst |-> inst, out_state |-> clear(out_state), out_obs |-> clear(out_obs),
              res |-> Err("Decoding")]
        ELSE
        LET r     == Game_step(inst.kind, inst.game, ds.val, da.val, step_rng(inst))
            inst2 == [inst EXCEPT !.game = r.game, !.rng = r.rng]
            es    == encode_state(inst.kind, r.state)
            eo    == encode_obs(inst.kind, r.obs)
        IN  IF ~es.ok
            THEN [inst |-> inst2, out_state |-> clear(out_state),
                  out_obs |-> clear(out_obs), res |-> Err("Encoding")]
            ELSE IF ~eo.ok
            THEN [inst |-> inst2, out_state |-> extend(clear(out_state), es.val),
                  out_obs |-> clear(out_obs), res |-> Err("Encoding")]
            ELSE [inst |-> inst2, out_state |-> extend(clear(out_state), es.val),
                  out_obs |-> extend(clear(out_obs), eo.val),
                  res |-> Ok([reward |-> r.reward, done |-> r.done])]

NoFactory == "NoFactory"

\* variant: the factory registered for "tictactoe" builds another game
Factories_crossed == [e \in GameIds |->
                         CASE e = "tictactoe" -> "TestGame"
                           [] e = "rng-test"  -> "RngStepGame"
                           [] e = "test"      -> "TestGame"]

\* the factory closures the tests and initialize_registry register
Factories == [e \in GameIds |->
                 CASE e = "tictactoe" -> "TicTacToe"
                   [] e = "rng-test"  -> "RngStepGame"
                   [] e = "test"      -> "TestGame"]

is_registered(reg, env_id) == env_id \in DOMAIN reg /\ reg[env_id] # NoFactory

\* variant: a key that is present keeps its factory
register_game_first_wins(reg, env_id, factory) ==
    IF is_registered(reg, env_id) THEN reg ELSE [reg EXCEPT ![env_id] = factory]

\* HashMap::insert under the registry lock: a present key is overwritten (with a warning)
register_game(reg, env_id, factory) == [reg EXCEPT ![env_id] = factory]

clear_registry(reg) == [x \in DOMAIN reg |-> NoFactory]

\* the orders in which the elements of a set may be listed
RECURSIVE Orders(_)
Orders(S) ==
    IF S = {} THEN {<<>>}
    ELSE UNION {{<<x>> \o rest : rest \in Orders(S \ {x})} : x \in S}

\* registry.keys().cloned().collect(): the keys, in the order the HashMap yields them
list_registered_games(reg) == Orders({k \in DOMAIN reg : reg[k] # NoFactory})

\* variant: an unknown env_id falls back to a default game
create_game_or_default(reg, env_id) ==
    IF is_registered(reg, env_id) THEN GameAdapter_new(reg[env_id])
    ELSE GameAdapter_new("TicTacToe")

create_game(reg, env_id) ==
    IF is_registered(reg, env_id) THEN GameAdapter_new(reg[env_id]) ELSE None

-----------------------------------------------------------------------------
(* engine-server: BufferPool *)

with_capacity(state_count, obs_count, action_count, initial_capacity) ==
    [state_buffers  |-> [i \in 1..state_count  |-> Vec_with_capacity(initial_capacity)],
     obs_buffers    |-> [i \in 1..obs_count    |-> Vec_with_capacity(initial_capacity)],
     action_buffers |-> [i \in 1..action_count |-> Vec_with_capacity(initial_capacity)]]

\* Vec::pop().unwrap_or_else(Vec::new) on one class
pop_or_new(stack) ==
    IF stack = <<>> THEN [buf |-> Vec_new, rest |-> <<>>]
    ELSE [buf |-> stack[Len(stack)], rest |-> SubSeq(stack, 1, Len(stack) - 1)]

get_state_buffer(pool) ==
    LET p == pop_or_new(pool.state_buffers)
    IN  [buf |-> p.buf, pool |-> [pool EXCEPT !.state_buffers = p.rest]]

get_obs_buffer(pool) ==
    LET p == pop_or_new(pool.obs_buffers)
    IN  [buf |-> p.buf, pool |-> [pool EXCEPT !.obs_buffers = p.rest]]

return_state_buffer(pool, buf) ==
    [pool EXCEPT !.state_buffers = Append(@, clear(buf))]

\* variant: the observation buffer is dropped instead of pushed back
return_obs_buffer_dropped(pool, buf) == pool

return_obs_buffer(pool, buf) ==
    [pool EXCEPT !.obs_buffers = Append(@, clear(buf))]

\* variant: the buffer is handed out and stays on the stack
get_action_buffer_peek(pool) ==
    [buf |-> pop_or_new(pool.action_buffers).buf, pool |-> pool]

get_action_buffer(pool) ==
    LET p == pop_or_new(pool.action_buffers)
    IN  [buf |-> p.buf, pool |-> [pool EXCEPT !.action_buffers = p.rest]]

return_action_buffer(pool, buf) ==
    [pool EXCEPT !.action_buffers = Append(@, clear(buf))]

stats(pool) ==
    [available_state_buffers  |-> Len(pool.state_buffers),
     available_obs_buffers    |-> Len(pool.obs_buffers),
     available_action_buffers |-> Len(pool.action_buffers)]

-----------------------------------------------------------------------------
(* engine-server: EngineService *)

Status(code, cache, pool) == [code |-> code, resp |-> None, cache |-> cache, pool |-> pool]

\* variant: capabilities are read from a cached instance, created on demand
get_capabilities_cached(cache, pool, reg, eid) ==
    IF ~is_registered(reg, eid.env_id) THEN Status("NotFound", cache, pool)
    ELSE LET key   == <<eid.env_id, eid.build_id>>
             entry == IF cache[key] # None THEN cache
                      ELSE [cache EXCEPT ![key] = create_game(reg, eid.env_id)]
         IN  [code |-> "Ok", resp |-> capabilities(entry[key].kind),
              cache |-> entry, pool |-> pool]

get_capabilities(cache, pool, reg, eid) ==
    IF ~is_registered(reg, eid.env_id) THEN Status("NotFound", cache, pool)
    ELSE LET game == create_game(reg, eid.env_id)
         IN  IF game = None THEN Status("Internal", cache, pool)
             ELSE [code |-> "Ok", resp |-> capabilities(game.kind),
                   cache |-> cache, pool |-> pool]

\* variant: the build_id is left out of the key of a Reset
reset_key_env_only(eid) == <<eid.env_id, "b1">>

\* the cache key of a Reset
reset_key(eid) == <<eid.env_id, eid.build_id>>

\* variant: the build_id is left out of the key of a Step
step_key_env_only(eid) == <<eid.env_id, "b1">>

\* the cache key of a Step
step_key(eid) == <<eid.env_id, eid.build_id>>

\* variant: every Reset installs a new instance
entry_or_insert_fresh(cache, reg, key) ==
    LET game == create_game(reg, key[1])
    IN  IF game = None THEN None ELSE [cache EXCEPT ![key] = game]

\* cache.entry(key): Occupied keeps the instance, Vacant creates and inserts one;
\* None when create_game finds no factory
entry_or_insert(cache, reg, key) ==
    IF cache[key] # None THEN cache
    ELSE LET game == create_game(reg, key[1])
         IN  IF game = None THEN None ELSE [cache EXCEPT ![key] = game]

\* variant: Step creates the instance it does not find
get_mut_or_create(cache, reg, key) ==
    IF cache[key] # None THEN cache ELSE [cache EXCEPT ![key] = create_game(reg, key[1])]

\* cache.get_mut(&key) of Step: the cache as it is, never an insertion
get_mut(cache, reg, key) == cache

\* variant: a Reset whose erased reset fails takes the instance out of the slot again
reset_uninstall(cache, pool, reg, req) ==
    IF req.id = None THEN Status("InvalidArgument", cache, pool)
    ELSE
    LET s     == get_state_buffer(pool)
        o     == get_obs_buffer(s.pool)
        key   == reset_key(req.id)
        entry == entry_or_insert(cache, reg, key)
    IN  IF entry = None THEN Status("NotFound", cache, o.pool)
        ELSE
        LET r      == GameAdapter_reset(entry[key], req.seed, req.hint, s.buf, o.buf)
            cache2 == [entry EXCEPT ![key] = r.inst]
        IN  IF ~r.res.ok THEN Status("Internal", cache, o.pool)
            ELSE [code  |-> "Ok",
                  resp  |-> [state |-> r.out_state.data, obs |-> r.out_obs.data],
                  cache |-> cache2,
                  pool  |-> return_obs_buffer(return_state_buffer(o.pool, r.out_state),
                                              r.out_obs)]

\* Reset: buffers, the slot's instance (created when the slot is empty), the erased
\* reset; the instance stays in the slot whatever the erased reset returns
reset(cache, pool, reg, req) ==
    IF req.id = None THEN Status("InvalidArgument", cache, pool)
    ELSE
    LET s     == get_state_buffer(pool)
        o     == get_obs_buffer(s.pool)
        key   == reset_key(req.id)
        entry == entry_or_insert(cache, reg, key)
    IN  IF entry = None THEN Status("NotFound", cache, o.pool)
        ELSE
        LET r      == GameAdapter_reset(entry[key], req.seed, req.hint, s.buf, o.buf)
            cache2 == [entry EXCEPT ![key] = r.inst]
        IN  IF ~r.res.ok THEN Status("Internal", cache2, o.pool)
            ELSE [code  |-> "Ok",
                  resp  |-> [state |-> r.out_state.data, obs |-> r.out_obs.data],
                  cache |-> cache2,
                  pool  |-> return_obs_buffer(return_state_buffer(o.pool, r.out_state),
                                              r.out_obs)]

\* variant: Step does not ask the registry
validate_step_id_only(reg, req) == IF req.id = None THEN "InvalidArgument" ELSE "Ok"

\* the checks of Step that precede its lookup
validate_step(reg, req) ==
    IF req.id = None THEN "InvalidArgument"
    ELSE IF ~is_registered(reg, req.id.env_id) THEN "NotFound"
    ELSE "Ok"

\* the info a step of a game of this kind returns with the state it wrote
step_info(kind, state) ==
    IF kind = "TicTacToe" THEN TicTacToe_info(TicTacToe_decode_state(state).val) ELSE 0

step(cache, pool, reg, req) ==
    IF validate_step(reg, req) # "Ok"
    THEN Status(validate_step(reg, req), cache, pool)
    ELSE
    LET key   == step_key(req.id)
        found == get_mut(cache, reg, key)
    IN  IF found[key] = None THEN Status("FailedPrecondition", found, pool)
        ELSE
        LET s      == get_state_buffer(pool)
            o      == get_obs_buffer(s.pool)
            r      == GameAdapter_step(found[key], req.state, req.action, s.buf, o.buf)
            cache2 == [found EXCEPT ![key] = r.inst]
        IN  IF ~r.res.ok THEN Status("Internal", cache2, o.pool)
            ELSE [code  |-> "Ok",
                  resp  |-> [state |-> r.out_state.data, obs |-> r.out_obs.data,
                             reward |-> r.res.val.reward, done |-> r.res.val.done,
                             info |-> step_info(found[key].kind, r.out_state.data)],
                  cache |-> cache2,
                  pool  |-> return_obs_buffer(return_state_buffer(o.pool, r.out_state),
                                              r.out_obs)]

-----------------------------------------------------------------------------
(* Requests *)

EngineIds == [env_id : EnvIds, build_id : BuildIds]

\* encoded states a client of env_id may send besides the one it was last given
FixedStates(env_id) ==
    CASE env_id = "tictactoe" ->
            { <<1, 1, 0, 2, 2, 0, 0, 0, 0, 1, 0>>,      \* X completes the top row at 2
              <<1, 2, 3>> }                             \* wrong length
      [] env_id = "rng-test" -> { <<0, 0, 0, 0, 0, 0, 0, 0>>, <<1, 2, 3>> }
      [] env_id = "test"     -> { <<18, 0, 0, 0>>, <<1, 2, 3>> }

\* encoded actions a client of env_id may send
ActionInputs(env_id) ==
    CASE env_id = "tictactoe" -> { <<4>>, <<2>>, <<9>> }
      [] env_id = "rng-test"  -> { <<>>, <<0>> }
      [] env_id = "test"      -> { <<2>>, <<1, 2, 3>> }

\* the inputs above that no decode_state / decode_action of env_id accepts
MalformedStates == { <<1, 2, 3>> }

MalformedActions(env_id) ==
    CASE env_id = "tictactoe" -> { <<9>> }
      [] env_id = "rng-test"  -> { <<0>> }
      [] env_id = "test"      -> { <<1, 2, 3>> }
      [] OTHER                -> {}

\* does a Step request for a game carry bytes of these
Malformed(id, state, action) ==
    IF id = None THEN FALSE
    ELSE state \in MalformedStates \/ action \in MalformedActions(id.env_id)

\* is the id one of a registered game
Served(id) == IF id = None THEN FALSE ELSE is_registered(registry, id.env_id)

\* the seed and hint of a Reset; one choice is enough for an id that reaches no game
ResetInputs(id) ==
    IF Served(id) THEN [seed : Seeds, hint : Hints] ELSE {[seed |-> 7, hint |-> <<>>]}

\* the state and action of a Step: the state last returned or a fixed one
StepInputs(id) ==
    IF Served(id)
    THEN [state  : FixedStates(id.env_id) \cup
                      (IF "state" \in DOMAIN last.resp THEN {last.resp.state} ELSE {}),
          action : ActionInputs(id.env_id)]
    ELSE {[state |-> <<>>, action |-> <<>>]}

\* the ids clients send: those of the registered games and the unknown one
RequestIds == {id \in EngineIds : is_registered(registry, id.env_id) \/ id.env_id = "unknown"}

\* the counters of a game stay within the bounds of the model
MayReset(inst) ==
    IF inst = None THEN TRUE
    ELSE IF inst.kind = "TestGame" THEN inst.game.reset_count < MaxResets
    ELSE TRUE

MayStep(inst) ==
    IF inst = None THEN TRUE
    ELSE IF inst.kind = "RngStepGame" THEN inst.game.step_calls < MaxSteps
    ELSE IF inst.kind = "TestGame" THEN inst.game.step_count < MaxSteps
    ELSE TRUE

\* what an adapter returned, as the caller sees it
Returned(r) ==
    IF ~r.res.ok THEN [ok |-> FALSE, err |-> r.res.err]
    ELSE IF "reward" \notin DOMAIN r.res.val
    THEN [ok |-> TRUE, state |-> r.out_state.data, obs |-> r.out_obs.data]
    ELSE [ok |-> TRUE, state |-> r.out_state.data, obs |-> r.out_obs.data,
          reward |-> r.res.val.reward, done |-> r.res.val.done]

-----------------------------------------------------------------------------
(* The service under sequential calls *)

Init ==
    /\ \E e \in GameIds :
          registry = [x \in EnvIds |-> IF x = e THEN Factories[e] ELSE NoFactory]
    /\ game_cache = [k \in Keys |-> None]
    /\ \E n \in {0, MaxPool} : buffer_pool = with_capacity(n, n, n, InitCap)
    /\ initial_stats = stats(buffer_pool)
    /\ last = [op |-> "new", id |-> None, seed |-> NoSeed, code |-> "Ok", resp |-> None,
               before |-> stats(buffer_pool), malformed |-> FALSE]
    /\ reset_keys = {}
    /\ indep = [k \in Keys |-> None]
    /\ indep_out = None
    /\ erased = None /\ erased_out = None /\ typed = None /\ typed_out = None
    /\ fresh = None /\ fresh_out = None
    /\ tasks = None /\ cache_lock = None /\ serial = <<>>
    /\ actor = None /\ replay = None /\ flush_timer = None
    /\ policy = None /\ selected = None
    /\ leases = None /\ pool_ops = None

GetCapabilities(id) ==
    \E out \in {get_capabilities(game_cache, buffer_pool, registry, id)} :
        /\ game_cache' = out.cache
        /\ buffer_pool' = out.pool
        /\ last' = [op |-> "GetCapabilities", id |-> id, seed |-> NoSeed, code |-> out.code,
                    resp |-> out.resp, before |-> stats(buffer_pool), malformed |-> FALSE]
        /\ indep_out' = None
        /\ UNCHANGED <<registry, initial_stats, reset_keys, indep>>
        /\ UNCHANGED outsideService

\* the same reset on the adapter that stands outside the service
IndepReset(id, seed, hint) ==
    IF Served(id)
    THEN LET key  == <<id.env_id, id.build_id>>
             inst == IF indep[key] = None
                     THEN create_game(registry, id.env_id) ELSE indep[key]
         IN  \E r \in {GameAdapter_reset(inst, seed, hint, Vec_new, Vec_new)} :
                /\ indep' = [indep EXCEPT ![key] = r.inst]
                /\ indep_out' = Returned(r)
    ELSE /\ indep_out' = None
         /\ UNCHANGED indep

\* the same step on the adapter that stands outside the service
IndepStep(id, state, action) ==
    IF (IF id = None THEN FALSE ELSE indep[<<id.env_id, id.build_id>>] # None)
    THEN LET key == <<id.env_id, id.build_id>>
         IN  \E r \in {GameAdapter_step(indep[key], state, action, Vec_new, Vec_new)} :
                /\ indep' = [indep EXCEPT ![key] = r.inst]
                /\ indep_out' = Returned(r)
    ELSE /\ indep_out' = None
         /\ UNCHANGED indep

Reset(id, seed, hint) ==
    /\ IF id = None THEN TRUE ELSE MayReset(game_cache[<<id.env_id, id.build_id>>])
    /\ \E out \in {reset(game_cache, buffer_pool, registry,
                         [id |-> id, seed |-> seed, hint |-> hint])} :
          /\ game_cache' = out.cache
          /\ buffer_pool' = out.pool
          /\ last' = [op |-> "Reset", id |-> id, seed |-> seed, code |-> out.code,
                      resp |-> out.resp, before |-> stats(buffer_pool),
                      malformed |-> FALSE]
          /\ reset_keys' = IF out.code \in {"Ok", "Internal"}
                           THEN reset_keys \cup {reset_key(id)} ELSE reset_keys
    /\ IndepReset(id, seed, hint)
    /\ UNCHANGED <<registry, initial_stats>>
    /\ UNCHANGED outsideService

Step(id, state, action) ==
    /\ IF id = None THEN TRUE ELSE MayStep(game_cache[<<id.env_id, id.build_id>>])
    /\ \E out \in {step(game_cache, buffer_pool, registry,
                        [id |-> id, state |-> state, action |-> action])} :
          /\ game_cache' = out.cache
          /\ buffer_pool' = out.pool
          /\ last' = [op |-> "Step", id |-> id, seed |-> NoSeed, code |-> out.code,
                      resp |-> out.resp, before |-> stats(buffer_pool),
                      malformed |-> Malformed(id, state, action)]
    /\ IndepStep(id, state, action)
    /\ UNCHANGED <<registry, initial_stats, reset_keys>>
    /\ UNCHANGED outsideService

Next ==
    \/ \E id \in RequestIds : GetCapabilities(id)
    \/ \E id \in RequestIds \cup {None} :
          \E in \in ResetInputs(id) : Reset(id, in.seed, in.hint)
    \/ \E id \in RequestIds \cup {None} :
          \E in \in StepInputs(id) : Step(id, in.state, in.action)

Spec == Init /\ [][Next]_vars

-----------------------------------------------------------------------------
(* The buffer pool across service calls *)

\* C1: on a service whose pool was pre-warmed, BufferPool.stats() after any sequence of
\* GetCapabilities, Reset and Step calls, failed ones included, equals the stats taken
\* before the sequence: no exit path of Reset or Step keeps a leased buffer.
C1_PoolStatsPreserved ==
    initial_stats.available_state_buffers > 0 => stats(buffer_pool) = initial_stats

\* C2: a Reset or Step that succeeds on a pool holding at least one state buffer and one
\* observation buffer leaves all three pool counts as they were before the call.
C2_SuccessReturnsBuffers ==
    (/\ last.op \in {"Reset", "Step"}
     /\ last.code = "Ok"
     /\ last.before.available_state_buffers >= 1
     /\ last.before.available_obs_buffers >= 1)
    => stats(buffer_pool) = last.before

\* a Step has succeeded on a pool that held buffers of both classes
C2_Witness ==
    /\ last.op = "Step"
    /\ last.code = "Ok"
    /\ last.before.available_state_buffers >= 1
    /\ last.before.available_obs_buffers >= 1
    /\ stats(buffer_pool) = last.before

-----------------------------------------------------------------------------
(* The instance cache *)

\* C3: a Step for a registered env_id on a key that no Reset has got past its
\* lookup-or-create for returns FailedPrecondition and leaves the cache unchanged.
C3_StepBeforeReset ==
    [][\A id \in EngineIds :
          (/\ last'.op = "Step"
           /\ last'.id = id
           /\ is_registered(registry, id.env_id)
           /\ <<id.env_id, id.build_id>> \notin reset_keys)
          => (last'.code = "FailedPrecondition" /\ game_cache' = game_cache)]_vars

\* a Step was refused on a key never reset, after a Reset on another key
C3_Witness ==
    /\ last.op = "Step"
    /\ last.code = "FailedPrecondition"
    /\ reset_keys # {}
    /\ <<last.id.env_id, last.id.build_id>> \notin reset_keys
    /\ game_cache[<<last.id.env_id, last.id.build_id>>] = None

\* C4: a Reset or Step for (env_id, b) changes no slot but the one under (env_id, b);
\* when Reset has been called only for (e, b1), a Step for (e, b2) with b2 # b1 returns
\* FailedPrecondition and the RNG of the (e, b1) instance stays where it was.
C4_BuildIsolation ==
    [][\A id \in EngineIds :
          (last'.op \in {"Reset", "Step"} /\ last'.id = id) =>
             /\ \A k \in Keys \ {<<id.env_id, id.build_id>>} : game_cache'[k] = game_cache[k]
             /\ \A b1 \in BuildIds \ {id.build_id} :
                   (/\ last'.op = "Step"
                    /\ {k \in reset_keys : k[1] = id.env_id} = {<<id.env_id, b1>>})
                   => /\ last'.code = "FailedPrecondition"
                      /\ game_cache'[<<id.env_id, b1>>].rng = game_cache[<<id.env_id, b1>>].rng]_vars

\* with only (e, b1) reset and its RNG advanced, a Step for (e, b2) was refused
C4_Witness ==
    /\ last.op = "Step"
    /\ last.code = "FailedPrecondition"
    /\ last.id.build_id = "b2"
    /\ reset_keys = {<<last.id.env_id, "b1">>}
    /\ game_cache[<<last.id.env_id, "b1">>].rng.pos > 0

\* C5: a slot goes from Empty to Ready only by a Reset on its key and never leaves Ready;
\* a Reset on a Ready slot keeps the instance (a TestGame goes on counting its resets)
\* and re-seeds its RNG with the seed of the request; no call replaces an instance by
\* one of another game.
C5_SlotLifecycle ==
    [][\A k \in Keys :
          /\ (game_cache[k] = None /\ game_cache'[k] # None)
                => (last'.op = "Reset" /\ last'.id = [env_id |-> k[1], build_id |-> k[2]])
          /\ (game_cache[k] # None) =>
                /\ game_cache'[k] # None
                /\ game_cache'[k].kind = game_cache[k].kind
                /\ (/\ last'.op = "Reset"
                    /\ last'.id = [env_id |-> k[1], build_id |-> k[2]]
                    /\ last'.code = "Ok") =>
                      /\ game_cache'[k].rng.seed = last'.seed
                      /\ (game_cache[k].kind = "TestGame") =>
                            (game_cache'[k].game.reset_count =
                                game_cache[k].game.reset_count + 1)]_vars

\* a Ready slot has been reset a second time
C5_Witness ==
    /\ last.op = "Reset"
    /\ last.code = "Ok"
    /\ game_cache[<<last.id.env_id, last.id.build_id>>].kind = "TestGame"
    /\ game_cache[<<last.id.env_id, last.id.build_id>>].game.reset_count = 2
    /\ game_cache[<<last.id.env_id, last.id.build_id>>].rng.seed = last.seed

\* C6: a Reset on an empty slot installs one instance made by the factory registered for
\* env_id, seeded with the seed of the request; for an env_id that is not registered it
\* returns NotFound and leaves the cache as it was.
C6_ResetLookupOrCreate ==
    [][\A id \in EngineIds :
          (/\ last'.op = "Reset"
           /\ last'.id = id
           /\ game_cache[<<id.env_id, id.build_id>>] = None)
          => IF is_registered(registry, id.env_id)
             THEN /\ game_cache'[<<id.env_id, id.build_id>>] # None
                  /\ game_cache'[<<id.env_id, id.build_id>>].kind = registry[id.env_id]
                  /\ game_cache'[<<id.env_id, id.build_id>>].rng.seed = last'.seed
             ELSE /\ last'.code = "NotFound"
                  /\ game_cache' = game_cache]_vars

\* a Reset for an unknown env_id was refused while another slot is Ready
C6_Witness ==
    /\ last.op = "Reset"
    /\ last.code = "NotFound"
    /\ game_cache[<<last.id.env_id, last.id.build_id>>] = None
    /\ \E k \in Keys : game_cache[k] # None

\* C7: GetCapabilities returns NotFound exactly when env_id is not registered, otherwise the
\* capabilities of a new instance of the registered game; the cache and the pool are left
\* as they were, whether or not a slot of that env_id is Ready.
C7_GetCapabilities ==
    [][\A id \in EngineIds :
          (last'.op = "GetCapabilities" /\ last'.id = id) =>
             /\ (last'.code = "NotFound") <=> ~is_registered(registry, id.env_id)
             /\ is_registered(registry, id.env_id) =>
                   /\ last'.code = "Ok"
                   /\ last'.resp = capabilities(GameAdapter_new(registry[id.env_id]).kind)
             /\ game_cache' = game_cache
             /\ buffer_pool' = buffer_pool]_vars

\* capabilities were returned for a key whose slot is Empty while the other build's is Ready
C7_Witness ==
    /\ last.op = "GetCapabilities"
    /\ last.code = "Ok"
    /\ last.resp.id.env_id = last.id.env_id
    /\ game_cache[<<last.id.env_id, last.id.build_id>>] = None
    /\ \E b \in BuildIds : game_cache[<<last.id.env_id, b>>] # None

\* C8: a Reset or Step without an EngineId returns InvalidArgument, a Step for an env_id
\* that is not registered returns NotFound; neither changes the cache or the pool.
C8_ValidationFirst ==
    [][/\ (last'.op \in {"Reset", "Step"} /\ last'.id = None) =>
             /\ last'.code = "InvalidArgument"
             /\ game_cache' = game_cache
             /\ buffer_pool' = buffer_pool
       /\ \A id \in EngineIds :
             (last'.op = "Step" /\ last'.id = id /\ ~is_registered(registry, id.env_id)) =>
                /\ last'.code = "NotFound"
                /\ game_cache' = game_cache
                /\ buffer_pool' = buffer_pool]_vars

\* a Step for an unknown env_id was refused with the pool still at its first depth
C8_Witness ==
    /\ last.op = "Step"
    /\ last.code = "NotFound"
    /\ initial_stats.available_state_buffers > 0
    /\ stats(buffer_pool) = initial_stats
    /\ \E k \in Keys : game_cache[k] # None

-----------------------------------------------------------------------------
(* Determinism *)

-----------------------------------------------------------------------------
(* Decode failures *)

\* C14: a Step on a Ready slot whose state or action bytes do not decode returns Internal
\* with no response, the adapter given the same call returns Decoding, and the instance,
\* its RNG included, is left as it was, so the Steps that follow are not affected.
C14_DecodeFailure ==
    [][(/\ last'.op = "Step"
        /\ last'.malformed
        /\ game_cache[<<last'.id.env_id, last'.id.build_id>>] # None)
       => /\ last'.code = "Internal"
          /\ last'.resp = None
          /\ indep_out' = [ok |-> FALSE, err |-> "Decoding"]
          /\ game_cache' = game_cache]_vars

\* a malformed Step was refused on a slot whose RNG stands where its Reset left it
C14_Witness ==
    /\ last.op = "Step"
    /\ last.malformed
    /\ last.code = "Internal"
    /\ game_cache[<<last.id.env_id, last.id.build_id>>].kind = "RngStepGame"
    /\ game_cache[<<last.id.env_id, last.id.build_id>>].rng.pos = 3
    /\ indep_out = [ok |-> FALSE, err |-> "Decoding"]

-----------------------------------------------------------------------------
(* The info of a tic-tac-toe Step *)

-----------------------------------------------------------------------------
(* The id of a created game *)

-----------------------------------------------------------------------------
(* One adapter through the erased interface, beside the typed game it wraps *)

Kinds == {"TicTacToe", "RngStepGame", "TestGame"}

\* typed actions of each game
TypedActions(kind) ==
    CASE kind = "TicTacToe"   -> 0..8
      [] kind = "RngStepGame" -> {"unit"}
      [] kind = "TestGame"    -> {1, 2}

InitAdapter ==
    /\ registry = [x \in EnvIds |-> NoFactory]
    /\ game_cache = [k \in Keys |-> None]
    /\ buffer_pool = with_capacity(0, 0, 0, InitCap)
    /\ initial_stats = stats(buffer_pool)
    /\ last = [op |-> "new", id |-> None, seed |-> NoSeed, code |-> "Ok", resp |-> None,
               before |-> stats(buffer_pool), malformed |-> FALSE]
    /\ reset_keys = {}
    /\ indep = [k \in Keys |-> None]
    /\ indep_out = None
    /\ \E kind \in Kinds :
          /\ erased = GameAdapter_new(kind)
          /\ typed = [kind |-> kind, game |-> Game_new(kind), rng |-> None, state |-> None,
                      steps |-> 0]
    /\ erased_out = None
    /\ typed_out = None
    /\ fresh = None
    /\ fresh_out = None
    /\ tasks = None /\ cache_lock = None /\ serial = <<>>
    /\ actor = None /\ replay = None /\ flush_timer = None
    /\ policy = None /\ selected = None
    /\ leases = None /\ pool_ops = None

\* ErasedGame::reset on the adapter; Game::reset on the typed game with an RNG seeded anew
ErasedReset(seed, hint) ==
    /\ MayReset(erased)
    /\ \E r \in {GameAdapter_reset(erased, seed, hint, Vec_new, Vec_new)},
          t \in {Game_reset(typed.kind, typed.game, seed_from_u64(seed), hint)},
          f \in {GameAdapter_reset(GameAdapter_new(erased.kind), seed, hint,
                                   Vec_new, Vec_new)} :
          /\ erased' = r.inst
          /\ erased_out' = Returned(r)
          /\ fresh' = f.inst
          /\ fresh_out' = Returned(f)
          /\ typed' = [typed EXCEPT !.game = t.game, !.rng = t.rng, !.state = t.state,
                                    !.steps = 0]
          /\ typed_out' = [state |-> t.state, obs |-> t.obs]
    /\ UNCHANGED outsideAdapter

\* ErasedGame::step on the bytes the adapter returned last; Game::step on the typed state
\* with the RNG the typed run carries along
ErasedStep(action) ==
    /\ IF erased_out = None THEN FALSE ELSE (erased_out.ok /\ fresh_out.ok)
    /\ typed.steps < MaxSteps
    /\ \E r \in {GameAdapter_step(erased, erased_out.state,
                                  encode_action(typed.kind, action).val, Vec_new, Vec_new)},
          t \in {Game_step(typed.kind, typed.game, typed.state, action, typed.rng)},
          f \in {GameAdapter_step(fresh, fresh_out.state,
                                  encode_action(typed.kind, action).val, Vec_new, Vec_new)} :
          /\ erased' = r.inst
          /\ erased_out' = Returned(r)
          /\ fresh' = f.inst
          /\ fresh_out' = Returned(f)
          /\ typed' = [typed EXCEPT !.game = t.game, !.rng = t.rng, !.state = t.state,
                                    !.steps = @ + 1]
          /\ typed_out' = [state |-> t.state, obs |-> t.obs, reward |-> t.reward,
                           done |-> t.done]
    /\ UNCHANGED outsideAdapter

NextAdapter ==
    \/ \E seed \in Seeds, hint \in Hints : ErasedReset(seed, hint)
    \/ \E action \in TypedActions(typed.kind) : ErasedStep(action)

SpecAdapter == InitAdapter /\ [][NextAdapter]_vars

\* C10: reset(seed) and the steps after it, run through the erased interface on one
\* adapter, return the encodings of the states and the rewards and done flags that the
\* typed game returns for the same actions with one RNG seeded with seed at the reset.
C10_ErasedMatchesTyped ==
    (erased_out # None) =>
       /\ erased_out.ok
       /\ decode_state(typed.kind, erased_out.state) = Ok(typed_out.state)
       /\ erased_out.state = encode_state(typed.kind, typed_out.state).val
       /\ erased_out.obs = encode_obs(typed.kind, typed_out.obs).val
       /\ ("reward" \in DOMAIN typed_out) =>
             /\ erased_out.reward = typed_out.reward
             /\ erased_out.done = typed_out.done

\* the second step of an episode of the game that draws from the RNG at every step
C10_Witness ==
    /\ typed.kind = "RngStepGame"
    /\ typed.steps = 2
    /\ erased.rng = typed.rng
    /\ erased_out.ok
    /\ erased_out.reward = typed_out.reward

\* C11: Reset(seed, hint) and the Steps that follow it return on an instance with earlier
\* resets and steps behind it what they return on an instance created for this Reset.
C11_ResetForgetsHistory ==
    (erased_out # None) => (erased_out = fresh_out)

\* a step after the second reset of an instance, beside an instance reset once
C11_Witness ==
    /\ erased.kind = "TestGame"
    /\ erased.game.reset_count = 2
    /\ fresh.game.reset_count = 1
    /\ typed.steps = 1
    /\ erased.rng = fresh.rng
    /\ erased_out.ok
    /\ erased_out = fresh_out

-----------------------------------------------------------------------------
(* The service under concurrent calls: each handler is cut where it awaits the cache   *)
(* lock, where it is inside the instance, and where it has dropped the lock.           *)

Tasks == {"t1", "t2"}

Idle == [pc |-> "idle", op |-> "none", req |-> None, idx |-> 0,
         state_buf |-> None, obs_buf |-> None, game |-> None, out |-> None]

\* the requests the tasks send: Reset and Step on the slots of "rng-test", a Reset of an
\* environment that is not registered, and a Step with a state that does not decode
ConcRequests ==
    [op : {"Reset"}, req : [id : {i \in EngineIds : i.env_id = "rng-test"},
                           seed : Seeds, hint : {<<>>}]]
    \cup
    [op : {"Step"}, req : [id : {i \in EngineIds : i.env_id = "rng-test"},
                          state : {<<0, 0, 0, 0, 0, 0, 0, 0>>}, action : {<<>>}]]
    \cup
    [op : {"Reset"}, req : [id : {[env_id |-> "unknown", build_id |-> "b1"]},
                           seed : {42}, hint : {<<>>}]]
    \cup
    [op : {"Step"}, req : [id : {[env_id |-> "rng-test", build_id |-> "b1"]},
                          state : {<<1, 2, 3>>}, action : {<<>>}]]

\* the cache key of the call a task runs
task_key(tk) == IF tk.op = "Reset" THEN reset_key(tk.req.id) ELSE step_key(tk.req.id)

\* variant: the lock is handed out while another task holds it
lock_free_always(lock) == TRUE

\* variant: only the drop(cache) of the success path releases the lock
drop_guard_on_success(lock, code) == IF code = "Ok" THEN None ELSE lock

\* the MutexGuard goes out of scope, by drop(cache) or by a return under it
drop_guard(lock, code) == None

\* tokio Mutex::lock().await completes only when no guard is alive
lock_free(lock) == lock = None

InitConc ==
    /\ registry = [x \in EnvIds |-> IF x = "rng-test" THEN Factories[x] ELSE NoFactory]
    /\ game_cache = [k \in Keys |-> None]
    /\ buffer_pool = with_capacity(MaxPool, MaxPool, MaxPool, InitCap)
    /\ initial_stats = stats(buffer_pool)
    /\ last = [op |-> "new", id |-> None, seed |-> NoSeed, code |-> "Ok", resp |-> None,
               before |-> stats(buffer_pool), malformed |-> FALSE]
    /\ reset_keys = {}
    /\ indep = [k \in Keys |-> None]
    /\ indep_out = None
    /\ erased = None /\ erased_out = None /\ typed = None /\ typed_out = None
    /\ fresh = None /\ fresh_out = None
    /\ actor = None /\ replay = None /\ flush_timer = None
    /\ policy = None /\ selected = None
    /\ leases = None /\ pool_ops = None
    /\ tasks = [p \in Tasks |-> Idle]
    /\ cache_lock = None
    /\ serial = <<>>

\* a handler starts: Reset checks the id and takes its buffers, Step checks the id and
\* the registry; then both await the cache lock
ConcCall(p, c) ==
    /\ tasks[p].pc = "idle"
    /\ Len(serial) + Cardinality({q \in Tasks : tasks[q].pc = "wait"}) < MaxCalls
    /\ IF c.op = "Reset"
       THEN \E s \in {get_state_buffer(buffer_pool)} :
            \E o \in {get_obs_buffer(s.pool)} :
               /\ buffer_pool' = o.pool
               /\ tasks' = [tasks EXCEPT ![p] =
                              [Idle EXCEPT !.pc = "wait", !.op = c.op, !.req = c.req,
                                           !.state_buf = s.buf, !.obs_buf = o.buf]]
       ELSE /\ tasks' = [tasks EXCEPT ![p] =
                           IF validate_step(registry, c.req) # "Ok"
                           THEN [Idle EXCEPT !.op = c.op, !.req = c.req,
                                             !.out = [code |-> validate_step(registry, c.req),
                                                      resp |-> None]]
                           ELSE [Idle EXCEPT !.pc = "wait", !.op = c.op, !.req = c.req]]
            /\ UNCHANGED buffer_pool
    /\ UNCHANGED <<registry, game_cache, initial_stats, last, reset_keys, indep, indep_out,
                   cache_lock, serial>>
    /\ UNCHANGED outsideConc

\* the lock is granted and the handler looks its slot up; a Step that finds none returns
\* at once, any other call is now inside the instance
ConcAcquire(p) ==
    /\ tasks[p].pc = "wait"
    /\ lock_free(cache_lock)
    /\ LET tk  == tasks[p]
           key == task_key(tk)
           idx == Len(serial) + 1
           ent == [task |-> p, op |-> tk.op, req |-> tk.req, out |-> None,
                   found |-> game_cache[key], used |-> None,
                   rivals |-> {q \in Tasks \ {p} :
                                  IF tasks[q].pc = "wait" THEN task_key(tasks[q]) = key
                                  ELSE FALSE}]
       IN  IF tk.op = "Reset"
           THEN \E entry \in {entry_or_insert(game_cache, registry, key)} :
                   IF entry = None
                   THEN /\ UNCHANGED game_cache
                        /\ cache_lock' = drop_guard([task |-> p], "NotFound")
                        /\ serial' = Append(serial, [ent EXCEPT !.out =
                                          [code |-> "NotFound", resp |-> None]])
                        /\ tasks' = [tasks EXCEPT ![p] =
                                       [Idle EXCEPT !.op = tk.op, !.req = tk.req,
                                                    !.out = [code |-> "NotFound",
                                                             resp |-> None]]]
                        /\ UNCHANGED buffer_pool
                   ELSE /\ game_cache' = entry
                        /\ cache_lock' = [task |-> p]
                        /\ serial' = Append(serial, [ent EXCEPT !.used = entry[key]])
                        /\ tasks' = [tasks EXCEPT ![p] =
                                       [tk EXCEPT !.pc = "inside", !.idx = idx,
                                                  !.game = entry[key]]]
                        /\ UNCHANGED buffer_pool
           ELSE \E found \in {get_mut(game_cache, registry, key)} :
                   IF found[key] = None
                   THEN /\ game_cache' = found
                        /\ cache_lock' = drop_guard([task |-> p], "FailedPrecondition")
                        /\ serial' = Append(serial, [ent EXCEPT !.out =
                                          [code |-> "FailedPrecondition", resp |-> None]])
                        /\ tasks' = [tasks EXCEPT ![p] =
                                       [Idle EXCEPT !.op = tk.op, !.req = tk.req,
                                                    !.out = [code |-> "FailedPrecondition",
                                                             resp |-> None]]]
                        /\ UNCHANGED buffer_pool
                   ELSE \E s \in {get_state_buffer(buffer_pool)} :
                        \E o \in {get_obs_buffer(s.pool)} :
                           /\ game_cache' = found
                           /\ cache_lock' = [task |-> p]
                           /\ serial' = Append(serial, [ent EXCEPT !.used = found[key]])
                           /\ buffer_pool' = o.pool
                           /\ tasks' = [tasks EXCEPT ![p] =
                                          [tk EXCEPT !.pc = "inside", !.idx = idx,
                                                     !.game = found[key],
                                                     !.state_buf = s.buf, !.obs_buf = o.buf]]
    /\ UNCHANGED <<registry, initial_stats, last, reset_keys, indep, indep_out>>
    /\ UNCHANGED outsideConc

\* the erased reset or step returns, the instance is left as the call made it and the
\* guard is dropped
ConcRelease(p) ==
    /\ tasks[p].pc = "inside"
    /\ LET tk  == tasks[p]
           key == task_key(tk)
       IN  \E r \in {IF tk.op = "Reset"
                     THEN GameAdapter_reset(tk.game, tk.req.seed, tk.req.hint,
                                            tk.state_buf, tk.obs_buf)
                     ELSE GameAdapter_step(tk.game, tk.req.state, tk.req.action,
                                           tk.state_buf, tk.obs_buf)} :
           \E out \in {IF ~r.res.ok THEN [code |-> "Internal", resp |-> None]
                       ELSE IF tk.op = "Reset"
                       THEN [code |-> "Ok",
                             resp |-> [state |-> r.out_state.data, obs |-> r.out_obs.data]]
                       ELSE [code |-> "Ok",
                             resp |-> [state |-> r.out_state.data, obs |-> r.out_obs.data,
                                       reward |-> r.res.val.reward,
                                       done |-> r.res.val.done,
                                       info |-> step_info(tk.game.kind,
                                                          r.out_state.data)]]} :
              /\ game_cache' = [game_cache EXCEPT ![key] = r.inst]
              /\ cache_lock' = drop_guard(cache_lock, out.code)
              /\ serial' = [serial EXCEPT ![tk.idx].out = out]
              /\ tasks' = [tasks EXCEPT ![p] =
                             IF ~r.res.ok
                             THEN [Idle EXCEPT !.op = tk.op, !.req = tk.req, !.out = out]
                             ELSE [tk EXCEPT !.pc = "respond", !.game = None, !.out = out,
                                             !.state_buf = r.out_state,
                                             !.obs_buf = r.out_obs]]
    /\ UNCHANGED <<registry, buffer_pool, initial_stats, last, reset_keys, indep, indep_out>>
    /\ UNCHANGED outsideConc

\* the response is built and both buffers go back to the pool
ConcRespond(p) ==
    /\ tasks[p].pc = "respond"
    /\ buffer_pool' = return_obs_buffer(return_state_buffer(buffer_pool, tasks[p].state_buf),
                                        tasks[p].obs_buf)
    /\ tasks' = [tasks EXCEPT ![p] = [Idle EXCEPT !.op = tasks[p].op, !.req = tasks[p].req,
                                                  !.out = tasks[p].out]]
    /\ UNCHANGED <<registry, game_cache, initial_stats, last, reset_keys, indep, indep_out,
                   cache_lock, serial>>
    /\ UNCHANGED outsideConc

NextConc ==
    \/ \E p \in Tasks, c \in ConcRequests : ConcCall(p, c)
    \/ \E p \in Tasks : ConcAcquire(p)
    \/ \E p \in Tasks : ConcRelease(p)
    \/ \E p \in Tasks : ConcRespond(p)

SpecConc == InitConc /\ [][NextConc]_vars

\* the service after the first n calls of serial, run one after another on an empty cache
RECURSIVE SerialRun(_)
SerialRun(n) ==
    IF n = 0 THEN Status("Ok", [k \in Keys |-> None], with_capacity(1, 1, 1, InitCap))
    ELSE LET before == SerialRun(n - 1)
         IN  IF serial[n].op = "Reset"
             THEN reset(before.cache, before.pool, registry, serial[n].req)
             ELSE step(before.cache, before.pool, registry, serial[n].req)

\* C12: the cache lock is held while a call is inside an instance, so at most one call is
\* inside an instance at a time, and every result returned equals the one the call gets
\* when the calls run one after another in the order they took the lock.
C12_SlotSerialised ==
    /\ Cardinality({p \in Tasks : tasks[p].pc = "inside"}) <= 1
    /\ \A p \in Tasks : (tasks[p].pc = "inside") => (cache_lock = [task |-> p])
    /\ \A n \in 1..Len(serial) :
          (serial[n].out # None) =>
             /\ serial[n].out.code = SerialRun(n).code
             /\ serial[n].out.resp = SerialRun(n).resp

\* two tasks have stepped the same slot one after the other and drew different words
C12_Witness ==
    /\ Len(serial) = 3
    /\ serial[2].op = "Step" /\ serial[3].op = "Step"
    /\ serial[2].task # serial[3].task
    /\ serial[2].req.id = serial[3].req.id
    /\ serial[2].out # None /\ serial[3].out # None
    /\ serial[2].out.code = "Ok" /\ serial[3].out.code = "Ok"
    /\ serial[2].out.resp.reward # serial[3].out.resp.reward
    /\ serial[3].out.resp = SerialRun(3).resp

\* C13: a call on one slot is never kept waiting for the cache lock by a call that is
\* inside the instance of another slot; calls on distinct slots run side by side.
C13_DistinctSlotsParallel ==
    \A p \in Tasks, q \in Tasks :
       (/\ tasks[p].pc = "wait"
        /\ tasks[q].pc = "inside"
        /\ task_key(tasks[p]) # task_key(tasks[q]))
       => lock_free(cache_lock)

-----------------------------------------------------------------------------
(* actor-rust: Actor::run, run_episode and flush_buffer.  run() is cut at its awaits:   *)
(* the select! of the main loop, the Reset and Step calls of an episode, and the        *)
(* StoreBatch call of a flush.  The engine and the replay service answer each call with *)
(* success or failure; a transition is told apart by the order of its construction.     *)

\* an episode of the model ends with this step at the latest
MaxEpisodeSteps == 2

\* run() starts at most this many episodes
MaxStarted == 2

\* periods of the flush timer that end while the same transition waits in the buffer
MaxWaited == 2

\* the options run() reads; Config::validate wants batch_size > 0
Configs == [max_episodes : {0 - 1, 0, 1, 2}, batch_size : {1, 2, 3}]

\* variant: one episode more than the limit
limit_reached_late(max_episodes, current_episode_count) ==
    max_episodes > 0 /\ current_episode_count > max_episodes

\* the episode limit of the main loop
limit_reached(max_episodes, current_episode_count) ==
    max_episodes > 0 /\ current_episode_count >= max_episodes

\* variant: the buffer is copied, not taken
take_buffer_cloned(buffer) == [transitions |-> buffer, buffer |-> buffer]

\* std::mem::take on the locked buffer
take_buffer(buffer) == [transitions |-> buffer, buffer |-> <<>>]

\* variant: a failed episode is counted too
episode_returned_counted(a, ok) == [a EXCEPT !.pc = "loop", !.episode_count = @ + 1]

\* variant: a failed episode takes its transitions out of the buffer
episode_returned_cleared(a, ok) ==
    [a EXCEPT !.pc = "loop", !.episode_count = IF ok THEN @ + 1 ELSE @,
              !.transition_buffer = IF ok THEN @ ELSE SelectSeq(@, LAMBDA t : t.run # a.started)]

\* run_episode returned to the main loop: Ok counts the episode, Err is logged
episode_returned(a, ok) ==
    [a EXCEPT !.pc = "loop", !.episode_count = IF ok THEN @ + 1 ELSE @]

\* the state and the observation in the k-th response of the engine to this actor:
\* opaque bytes, no two responses alike
EngineState(k) == [state_of |-> k]

EngineObs(k) == [obs_of |-> k]

\* variant: the next step starts from the state the episode had before
after_push_stale(a) ==
    IF a.done THEN episode_returned(a, TRUE)
    ELSE [a EXCEPT !.pc = "step", !.step_number = @ + 1]

\* run_episode after its push and flush: the episode ends on done, else the next step
\* starts from the state and the observation of the Step response
after_push(a) ==
    IF a.done THEN episode_returned(a, TRUE)
    ELSE [a EXCEPT !.pc = "step", !.step_number = @ + 1,
                   !.current_state = a.step_data.state,
                   !.current_obs = a.step_data.obs]

\* variant: a failed flush of the timer ends run()
flush_returned_fatal(a, ret, ok) ==
    CASE ret = "timer"   -> IF ok THEN [a EXCEPT !.pc = "loop"]
                            ELSE [a EXCEPT !.pc = "returned", !.result = "Err"]
      [] ret = "episode" -> IF ok THEN after_push(a) ELSE episode_returned(a, FALSE)
      [] ret = "final"   -> [a EXCEPT !.pc = "returned",
                                      !.result = IF ok THEN "Ok" ELSE "Err"]

\* variant: the episode goes on after a failed flush
flush_returned_continues(a, ret, ok) ==
    CASE ret = "timer"   -> [a EXCEPT !.pc = "loop"]
      [] ret = "episode" -> after_push(a)
      [] ret = "final"   -> [a EXCEPT !.pc = "returned",
                                      !.result = IF ok THEN "Ok" ELSE "Err"]

\* what the caller of flush_buffer does with its result: the timer arm logs an Err, the
\* episode returns it with `?`, run() returns it with `?` after the loop
flush_returned(a, ret, ok) ==
    CASE ret = "timer"   -> [a EXCEPT !.pc = "loop"]
      [] ret = "episode" -> IF ok THEN after_push(a) ELSE episode_returned(a, FALSE)
      [] ret = "final"   -> [a EXCEPT !.pc = "returned",
                                      !.result = IF ok THEN "Ok" ELSE "Err"]

\* flush_buffer up to its await: nothing to send returns Ok at once, else the buffer is
\* taken and one StoreBatch request goes out
flush_buffer(a, ret) ==
    LET called == [a EXCEPT !.flushes = @ + 1, !.flush_entry = a.transition_buffer]
    IN  IF a.transition_buffer = <<>>
        THEN /\ actor' = flush_returned(called, ret, TRUE)
             /\ UNCHANGED replay
        ELSE \E taken \in {take_buffer(a.transition_buffer)} :
                /\ actor' = [called EXCEPT !.transition_buffer = taken.buffer,
                                           !.pc = "store_batch", !.ret = ret]
                /\ replay' = [replay EXCEPT !.in_flight = taken.transitions]

\* variant: run() returns without its last flush
break_loop_unflushed(a) ==
    /\ actor' = [a EXCEPT !.pc = "returned", !.result = "Ok"]
    /\ UNCHANGED replay

\* after the loop: flush what remains, then return
break_loop(a) == flush_buffer(a, "final")

InitActor ==
    /\ registry = [x \in EnvIds |-> NoFactory]
    /\ game_cache = [k \in Keys |-> None]
    /\ buffer_pool = with_capacity(0, 0, 0, InitCap)
    /\ initial_stats = stats(buffer_pool)
    /\ last = [op |-> "new", id |-> None, seed |-> NoSeed, code |-> "Ok", resp |-> None,
               before |-> stats(buffer_pool), malformed |-> FALSE]
    /\ reset_keys = {}
    /\ indep = [k \in Keys |-> None]
    /\ indep_out = None
    /\ erased = None /\ erased_out = None /\ typed = None /\ typed_out = None
    /\ fresh = None /\ fresh_out = None
    /\ tasks = None /\ cache_lock = None /\ serial = <<>>
    /\ \E config \in Configs :
          actor = [config |-> config, episode_count |-> 0, transition_buffer |-> <<>>,
                   shutdown_signal |-> FALSE,
                   pc |-> "loop", ret |-> "none", step_number |-> 0, done |-> FALSE,
                   result |-> "none",
                   current_state |-> None, current_obs |-> None, step_data |-> None,
                   started |-> 0, constructed |-> 0, flushes |-> 0, flush_entry |-> <<>>,
                   responses |-> 0, reset_data |-> <<>>, request |-> None,
                   episode_id |-> None, unix_seconds |-> 0]
    /\ replay = [in_flight |-> <<>>, stored |-> <<>>, reported |-> <<>>]
    /\ flush_timer = [due |-> TRUE, waited |-> 0]
    /\ policy = None /\ selected = None
    /\ leases = None /\ pool_ops = None

\* Actor::shutdown, called by the signal task
Shutdown ==
    /\ actor.pc # "returned"
    /\ ~actor.shutdown_signal
    /\ actor' = [actor EXCEPT !.shutdown_signal = TRUE]
    /\ UNCHANGED <<replay, flush_timer>>
    /\ UNCHANGED outsideActor

\* a period of the flush timer ends while run() awaits the select! or a remote call
Tick ==
    /\ IF actor.pc = "select" THEN ~flush_timer.due
       ELSE actor.pc \in {"reset", "step", "store_batch"}
    /\ flush_timer.waited < MaxWaited
    /\ flush_timer' = [due |-> TRUE,
                       waited |-> IF actor.transition_buffer # <<>>
                                  THEN flush_timer.waited + 1 ELSE flush_timer.waited]
    /\ UNCHANGED <<actor, replay>>
    /\ UNCHANGED outsideActor

\* the head of the main loop: the shutdown flag ends the loop, else the select!
LoopTop ==
    /\ actor.pc = "loop"
    /\ IF actor.shutdown_signal
       THEN /\ break_loop(actor)
            /\ flush_timer' = [flush_timer EXCEPT !.waited = 0]
       ELSE /\ actor' = [actor EXCEPT !.pc = "select"]
            /\ UNCHANGED <<replay, flush_timer>>
    /\ UNCHANGED outsideActor

\* select!: flush_timer.tick() is ready
TimerArm ==
    /\ actor.pc = "select"
    /\ flush_timer.due
    /\ flush_timer' = [due |-> FALSE, waited |-> 0]
    /\ IF Len(actor.transition_buffer) > 0
       THEN flush_buffer(actor, "timer")
       ELSE /\ actor' = [actor EXCEPT !.pc = "loop"]
            /\ UNCHANGED replay
    /\ UNCHANGED outsideActor

\* select!: the 1 ms sleep is over: the episode limit ends the loop, else an episode starts
SleepArm ==
    /\ actor.pc = "select"
    /\ ~flush_timer.due
    /\ IF limit_reached(actor.config.max_episodes, actor.episode_count)
       THEN /\ break_loop(actor)
            /\ flush_timer' = [flush_timer EXCEPT !.waited = 0]
       ELSE /\ actor.started < MaxStarted
            /\ actor' = [actor EXCEPT !.pc = "reset", !.started = @ + 1]
            /\ UNCHANGED <<replay, flush_timer>>
    /\ UNCHANGED outsideActor

\* the unix second that SystemTime::now() shows: a clock that does not go back
UnixSeconds == {0, 1}

\* format!("{}-ep-{}-{}", actor_id, episode_count, unix seconds), as its parts
episode_id(a, secs) == <<"actor-1", "ep", a.episode_count, secs>>

\* format!("{}-step-{}", episode_id, step_number), as its parts
transition_id(eid, step_number) == eid \o <<"step", step_number>>

\* run_episode: the Reset call answers, or fails or times out; the episode id is
\* composed from the second read after the answer
EpisodeReset(ok, secs) ==
    /\ actor.pc = "reset"
    /\ IF ok THEN secs >= actor.unix_seconds ELSE secs = actor.unix_seconds
    /\ actor' = IF ok
                THEN [actor EXCEPT
                         !.pc = "step", !.step_number = 0, !.done = FALSE,
                         !.episode_id = episode_id(actor, secs),
                         !.unix_seconds = secs,
                         !.current_state = EngineState(actor.responses + 1),
                         !.current_obs = EngineObs(actor.responses + 1),
                         !.responses = @ + 1,
                         !.reset_data = Append(@, [run |-> actor.started,
                                                   state |-> EngineState(actor.responses + 1),
                                                   obs |-> EngineObs(actor.responses + 1)])]
                ELSE episode_returned(actor, FALSE)
    /\ UNCHANGED <<replay, flush_timer>>
    /\ UNCHANGED outsideActor

\* variant: the buffer is flushed when it holds more than batch_size
buffer_full_late(a) == Len(a.transition_buffer) > a.config.batch_size

\* run_episode after the push: the buffer is full
buffer_full(a) == Len(a.transition_buffer) >= a.config.batch_size

\* the StepRequest of run_episode, with the episode and the step it belongs to
step_request(a) ==
    [state |-> a.current_state, run |-> a.started, step_number |-> a.step_number,
     after |-> a.responses]

\* run_episode: the policy and the Step call answer, or one of them fails or times out;
\* the transition is built and pushed, and a full buffer is flushed
EpisodeStep(ok, done) ==
    /\ actor.pc = "step"
    /\ IF done THEN TRUE ELSE actor.step_number + 1 < MaxEpisodeSteps
    /\ IF ~ok
       THEN /\ actor' = episode_returned([actor EXCEPT !.request = step_request(actor)], FALSE)
            /\ UNCHANGED <<replay, flush_timer>>
       ELSE LET step_data  == [state |-> EngineState(actor.responses + 1),
                               obs |-> EngineObs(actor.responses + 1)]
                transition == [n |-> actor.constructed + 1,
                               id |-> transition_id(actor.episode_id, actor.step_number),
                               episode |-> actor.episode_count,
                               run |-> actor.started,
                               step_number |-> actor.step_number,
                               state |-> actor.current_state,
                               next_state |-> step_data.state,
                               observation |-> actor.current_obs,
                               next_observation |-> step_data.obs,
                               done |-> done]
                pushed == [actor EXCEPT
                              !.transition_buffer = Append(@, transition),
                              !.constructed = @ + 1,
                              !.done = done,
                              !.step_data = step_data,
                              !.responses = @ + 1,
                              !.request = step_request(actor)]
            IN  IF buffer_full(pushed)
                THEN /\ flush_buffer(pushed, "episode")
                     /\ flush_timer' = [flush_timer EXCEPT !.waited = 0]
                ELSE /\ actor' = after_push(pushed)
                     /\ UNCHANGED <<replay, flush_timer>>
    /\ UNCHANGED outsideActor

\* flush_buffer after its await: the StoreBatch call answers; an Err goes to the caller,
\* who logs it (the timer arm, the main loop for a failed episode, main for run())
StoreBatchDone(ok) ==
    /\ actor.pc = "store_batch"
    /\ replay' = [in_flight |-> <<>>,
                  stored    |-> IF ok THEN Append(replay.stored, replay.in_flight)
                                ELSE replay.stored,
                  reported  |-> IF ok THEN replay.reported
                                ELSE Append(replay.reported,
                                            [batch |-> replay.in_flight, by |-> actor.ret])]
    /\ actor' = flush_returned(actor, actor.ret, ok)
    /\ UNCHANGED flush_timer
    /\ UNCHANGED outsideActor

NextActor ==
    \/ Shutdown
    \/ Tick
    \/ LoopTop
    \/ TimerArm
    \/ SleepArm
    \/ \E ok \in BOOLEAN, secs \in UnixSeconds : EpisodeReset(ok, secs)
    \/ \E ok \in BOOLEAN, done \in BOOLEAN : EpisodeStep(ok, done)
    \/ \E ok \in BOOLEAN : StoreBatchDone(ok)

SpecActor == InitActor /\ [][NextActor]_vars

-----------------------------------------------------------------------------
(* Batch conservation *)

\* the places of transition n in a sequence of batches
Places(n, batches) ==
    UNION { {<<b, i>> : i \in {j \in DOMAIN batches[b] : batches[b][j].n = n}} :
            b \in DOMAIN batches }

\* the batches whose StoreBatch failed and was logged
ReportedBatches == [i \in DOMAIN replay.reported |-> replay.reported[i].batch]

\* C16: every transition the actor has constructed is in exactly one place: in the buffer,
\* in the StoreBatch call in flight, in one batch that the replay service stored, or in
\* one batch whose failure was logged; it is in no second place, and once run() has
\* returned none is in the buffer or in flight.
C16_BatchConservation ==
    /\ \A n \in 1..actor.constructed :
          Cardinality(Places(n, <<actor.transition_buffer, replay.in_flight>>))
          + Cardinality(Places(n, replay.stored))
          + Cardinality(Places(n, ReportedBatches)) = 1
    /\ (actor.pc = "returned")
       => /\ actor.transition_buffer = <<>>
          /\ replay.in_flight = <<>>

\* run() returned Ok at the episode limit after a batch of the timer was lost and logged
\* and the flush after the loop sent the partial batch that was left
C16_Witness ==
    /\ actor.pc = "returned"
    /\ actor.result = "Ok"
    /\ ~actor.shutdown_signal
    /\ actor.episode_count = 2
    /\ actor.constructed = 2
    /\ Len(replay.reported) = 1
    /\ replay.reported[1].by = "timer"
    /\ replay.reported[1].batch[1].n = 1
    /\ Len(replay.stored) = 1
    /\ replay.stored[1] = actor.flush_entry
    /\ replay.stored[1][1].n = 2

-----------------------------------------------------------------------------
(* Flush triggers *)

\* C17: a flush is issued as soon as the buffer holds batch_size transitions, so at every
\* await of run() the buffer is shorter than batch_size; and a flush is issued when a
\* period of the flush timer ends on a non-empty buffer, so no buffered transition sees
\* the end of a second period, whether an episode is in progress or not.
C17_FlushTrigger ==
    /\ Len(actor.transition_buffer) < actor.config.batch_size
    /\ flush_timer.waited <= 1

-----------------------------------------------------------------------------
(* flush_buffer *)

\* C18: when the StoreBatch call of a flush_buffer succeeds, the replay service has got
\* one more batch, which is the buffer as flush_buffer found it, in that order, no other
\* request is open, and the buffer is empty; a flush_buffer that finds the buffer empty
\* sends nothing and returns Ok.
C18_FlushBuffer ==
    [][/\ (actor.pc = "store_batch" /\ Len(replay'.stored) > Len(replay.stored))
          => /\ replay'.stored = Append(replay.stored, actor.flush_entry)
             /\ replay'.reported = replay.reported
             /\ replay'.in_flight = <<>>
             /\ actor'.transition_buffer = <<>>
       /\ (actor'.flushes = actor.flushes + 1 /\ actor'.flush_entry = <<>>)
          => /\ replay' = replay
             /\ actor'.pc = "returned"
             /\ actor'.result = "Ok"]_vars

\* with batch_size 2, two buffered transitions went out in one batch in their order, and
\* the flush after the loop found the buffer empty
C18_Witness ==
    /\ actor.config.batch_size = 2
    /\ Len(replay.stored) = 1
    /\ Len(replay.stored[1]) = 2
    /\ replay.stored[1][1].n = 1
    /\ replay.stored[1][2].n = 2
    /\ replay.reported = <<>>
    /\ actor.transition_buffer = <<>>
    /\ actor.flushes = 2
    /\ actor.flush_entry = <<>>
    /\ actor.pc = "returned"
    /\ actor.result = "Ok"

\* the size trigger alone: at every await of run() the buffer is below batch_size
SizeTriggerHolds == Len(actor.transition_buffer) < actor.config.batch_size

-----------------------------------------------------------------------------
(* Flush failures *)

\* C19: when the StoreBatch call of a flush fails, the buffer is left as it was while
\* the call was open and holds none of the transitions of the failed batch; and if the
\* flush was that of the timer or of a full buffer, run() is back at the head of its
\* main loop and has not returned.
C19_FlushFailure ==
    [][(actor.pc = "store_batch" /\ Len(replay'.reported) > Len(replay.reported))
       => /\ actor'.transition_buffer = actor.transition_buffer
          /\ \A i \in DOMAIN replay.in_flight :
                Places(replay.in_flight[i].n, <<actor'.transition_buffer>>) = {}
          /\ (actor.ret \in {"timer", "episode"})
             => /\ actor'.pc = "loop"
                /\ actor'.result = "none"]_vars

\* a flush of the timer and then a flush of a full buffer have failed; the buffer is
\* empty and run() is at its select! again
C19_Witness ==
    /\ Len(replay.reported) = 2
    /\ replay.reported[1].by = "timer"
    /\ replay.reported[2].by = "episode"
    /\ actor.pc = "select"
    /\ actor.result = "none"
    /\ ~actor.shutdown_signal
    /\ actor.transition_buffer = <<>>

-----------------------------------------------------------------------------
(* The end of the main loop *)

\* run() leaves its main loop in this step
LeavesLoop ==
    /\ actor.pc \in {"loop", "select"}
    /\ \/ actor'.pc = "returned"
       \/ actor'.pc = "store_batch" /\ actor'.ret = "final"

\* C20: no episode starts once max_episodes > 0 episodes have succeeded; run() leaves its
\* main loop only with the shutdown flag set or with that limit reached, hence only on
\* shutdown when max_episodes <= 0; at the limit the sleep arm of the select! leaves the
\* loop; and run() returns only from the flush that follows the loop, with an empty
\* buffer.
C20_MainLoop ==
    [][LET limit == /\ actor.config.max_episodes > 0
                    /\ actor.episode_count >= actor.config.max_episodes
       IN  /\ (actor'.started = actor.started + 1) => ~limit
           /\ LeavesLoop => (actor.shutdown_signal \/ limit)
           /\ (LeavesLoop /\ actor.config.max_episodes <= 0) => actor.shutdown_signal
           /\ (actor.pc = "select" /\ ~flush_timer.due /\ limit /\ actor'.pc # "select")
              => LeavesLoop
           /\ (actor'.pc = "returned" /\ actor.pc # "returned")
              => /\ actor'.transition_buffer = <<>>
                 /\ IF actor.pc = "store_batch" THEN actor.ret = "final"
                    ELSE actor'.flushes = actor.flushes + 1]_vars

\* with max_episodes = 1, run() returned without a shutdown after one episode had
\* failed and one had succeeded
C20_Witness ==
    /\ actor.config.max_episodes = 1
    /\ actor.episode_count = 1
    /\ actor.started = 2
    /\ ~actor.shutdown_signal
    /\ actor.pc = "returned"
    /\ actor.transition_buffer = <<>>

-----------------------------------------------------------------------------
(* Failed episodes *)

\* run_episode returns Ok in this step: its last Step said done, and the flush of a
\* buffer that this Step filled, if any, succeeded
EpisodeSucceeds ==
    \/ /\ actor.pc = "step"
       /\ actor'.pc = "loop"
       /\ actor'.constructed = actor.constructed + 1
       /\ actor'.done
    \/ /\ actor.pc = "store_batch"
       /\ actor.ret = "episode"
       /\ actor.done
       /\ Len(replay'.stored) > Len(replay.stored)

\* run_episode returns in this step
EpisodeEnds ==
    /\ actor'.pc = "loop"
    /\ \/ actor.pc \in {"reset", "step"}
       \/ actor.pc = "store_batch" /\ actor.ret = "episode"

\* C21: an episode that ends without success (its Reset or a Step failed or timed out, or
\* its flush failed) leaves episode_count as it was and puts run() at the head of its
\* loop; a successful episode adds exactly one, and nothing else changes the count; and
\* the first Step of an episode follows a Reset of that episode, with step number 0.
C21_FailedEpisode ==
    [][/\ (EpisodeEnds /\ ~EpisodeSucceeds) => actor'.episode_count = actor.episode_count
       /\ EpisodeSucceeds => actor'.episode_count = actor.episode_count + 1
       /\ (actor'.episode_count # actor.episode_count) => EpisodeSucceeds
       /\ (actor'.pc = "step" /\ actor.pc \notin {"step", "store_batch"})
          => /\ actor.pc = "reset"
             /\ actor'.step_number = 0
       /\ (actor'.pc = "step" /\ actor.pc = "store_batch") => actor.ret = "episode"]_vars

\* the first episode failed at its second Step, leaving its first transition in the
\* buffer; the second episode has got its Reset and is about to send its first Step
C21_Witness ==
    /\ actor.started = 2
    /\ actor.episode_count = 0
    /\ actor.pc = "step"
    /\ actor.step_number = 0
    /\ Len(actor.transition_buffer) = 1
    /\ actor.transition_buffer[1].step_number = 0
    /\ ~actor.transition_buffer[1].done

-----------------------------------------------------------------------------
(* Shutdown *)

\* run() on a fair executor, with services that answer every call (with success or
\* failure) and a clock that moves on
SpecActorFair ==
    /\ SpecActor
    /\ WF_vars(LoopTop)
    /\ WF_vars(TimerArm)
    /\ WF_vars(SleepArm)
    /\ WF_vars(Tick)
    /\ WF_vars(\E ok \in BOOLEAN, secs \in UnixSeconds : EpisodeReset(ok, secs))
    /\ WF_vars(\E ok \in BOOLEAN, done \in BOOLEAN : EpisodeStep(ok, done))
    /\ WF_vars(\E ok \in BOOLEAN : StoreBatchDone(ok))

\* a Reset or a Step request goes out in this step
IssuesCall ==
    \/ actor'.pc = "reset" /\ actor.pc # "reset"
    \/ /\ actor'.pc = "step"
       /\ \/ actor.pc \in {"reset", "store_batch"}
          \/ actor.pc = "step" /\ actor'.step_number # actor.step_number

\* with the shutdown flag set, no Reset and no Step request goes out
NoCallAfterShutdown == [][actor.shutdown_signal => ~IssuesCall]_vars

\* once the shutdown flag is set, run() returns, and does so with an empty buffer
ExitsAfterShutdown ==
    actor.shutdown_signal ~> (actor.pc = "returned" /\ actor.transition_buffer = <<>>)

\* C22: once the shutdown flag is set the actor lets the call in flight complete, sends no
\* further Step or Reset, flushes what is in the buffer and returns; on a fair executor
\* with answering services it does return.
C22_SoftShutdown == NoCallAfterShutdown /\ ExitsAfterShutdown

-----------------------------------------------------------------------------
(* actor-rust: RandomPolicy.  An f32 bound is a record: NaN, or a number of the integer *)
(* grid.  The ChaCha20Rng is seeded from entropy, so gen_range is any value of its      *)
(* range.                                                                               *)

F32(v) == [nan |-> FALSE, val |-> v]

NaN == [nan |-> TRUE, val |-> 0]

\* the f32 comparisons: every comparison with NaN is false
f32_lt(a, b) == ~a.nan /\ ~b.nan /\ a.val < b.val

f32_ge(a, b) == ~a.nan /\ ~b.nan /\ a.val >= b.val

\* f32::from_le_bytes on the bytes of an integer v with |v| < 2^24
f32_from_le_bytes(b) ==
    LET bits == u32_from_le_bytes(<<b[1], b[2], b[3], b[4] % 128>>)
        e    == (bits \div 8388608) - 127
        mag  == IF bits = 0 THEN 0 ELSE ((8388608 + (bits % 8388608)) * 2^e) \div 8388608
    IN  IF b[4] >= 128 THEN 0 - mag ELSE mag

\* the action spaces a Capabilities message may carry
ActionSpaces ==
    {[type |-> "Discrete", n |-> n] : n \in {0, 1, 2, 4, 9}}
    \cup {[type |-> "MultiDiscrete", nvec |-> nvec] :
             nvec \in {<<>>, <<3>>, <<2, 3, 4>>, <<2, 0>>, <<0, 3>>, <<2, 3, 0>>}}
    \cup {[type |-> "Continuous", low |-> b[1], high |-> b[2]] :
             b \in { << <<F32(0 - 1), F32(0)>>, <<F32(1), F32(2)>> >>,
                     << <<F32(0 - 3), F32(5)>>, <<F32(3), F32(9)>> >>,
                     << <<>>, <<>> >>,
                     << <<F32(0)>>, <<F32(1), F32(2)>> >>,
                     << <<F32(0), F32(1)>>, <<F32(1)>> >>,
                     << <<F32(1)>>, <<F32(1)>> >>,
                     << <<F32(0), F32(3)>>, <<F32(2), F32(1)>> >>,
                     << <<NaN>>, <<F32(1)>> >>,
                     << <<F32(0), F32(0)>>, <<F32(2), NaN>> >> }}

Panic == [ok |-> FALSE, panic |-> TRUE]

\* variant: the upper end is drawn too
gen_range_u32_inclusive(n) == 0..n

\* rng.gen_range(0..n) for n > 0
gen_range_u32(n) == 0..(n - 1)

\* rng.gen_range(low..high) on f32: panics on an empty range, which !(low < high) is
gen_range_f32(low, high) ==
    IF ~f32_lt(low, high) THEN {Panic}
    ELSE {Ok(F32(v)) : v \in low.val..(high.val - 1)}

\* the loop over nvec: an Err at the first zero component, else 4 more bytes
RECURSIVE select_multi(_)
select_multi(nvec) ==
    IF nvec = <<>> THEN {Ok(<<>>)}
    ELSE IF Head(nvec) = 0 THEN {Err("Multi-discrete action space must have all n > 0")}
    ELSE {IF r.ok THEN Ok(u32_to_le_bytes(action) \o r.val) ELSE r :
             action \in gen_range_u32(Head(nvec)), r \in select_multi(Tail(nvec))}

\* the loop over low.iter().zip(high.iter())
RECURSIVE select_continuous(_, _)
select_continuous(low, high) ==
    IF low = <<>> \/ high = <<>> THEN {Ok(<<>>)}
    ELSE IF f32_ge(Head(low), Head(high))
    THEN {Err("Continuous action space low bound must be less than high bound")}
    ELSE {IF ~action.ok THEN action
          ELSE IF r.ok THEN Ok(f32_to_le_bytes(action.val.val) \o r.val) ELSE r :
             action \in gen_range_f32(Head(low), Head(high)),
             r \in select_continuous(Tail(low), Tail(high))}

\* the results select_action may return: Ok(bytes), Err(message), or a panic
select_action(action_space) ==
    CASE action_space.type = "Discrete" ->
            IF action_space.n = 0 THEN {Err("Discrete action space must have n > 0")}
            ELSE {Ok(u32_to_le_bytes(action)) : action \in gen_range_u32(action_space.n)}
      [] action_space.type = "MultiDiscrete" -> select_multi(action_space.nvec)
      [] action_space.type = "Continuous" ->
            IF Len(action_space.low) # Len(action_space.high)
            THEN {Err("Continuous action space low and high bounds must have same length")}
            ELSE select_continuous(action_space.low, action_space.high)

InitPolicy ==
    /\ registry = [x \in EnvIds |-> NoFactory]
    /\ game_cache = [k \in Keys |-> None]
    /\ buffer_pool = with_capacity(0, 0, 0, InitCap)
    /\ initial_stats = stats(buffer_pool)
    /\ last = [op |-> "new", id |-> None, seed |-> NoSeed, code |-> "Ok", resp |-> None,
               before |-> stats(buffer_pool), malformed |-> FALSE]
    /\ reset_keys = {}
    /\ indep = [k \in Keys |-> None]
    /\ indep_out = None
    /\ erased = None /\ erased_out = None /\ typed = None /\ typed_out = None
    /\ fresh = None /\ fresh_out = None
    /\ tasks = None /\ cache_lock = None /\ serial = <<>>
    /\ actor = None /\ replay = None /\ flush_timer = None
    /\ \E action_space \in ActionSpaces : policy = [action_space |-> action_space]
    /\ selected = None
    /\ leases = None /\ pool_ops = None

\* policy.select_action(&observation)
SelectAction ==
    /\ \E r \in select_action(policy.action_space) : selected' = r
    /\ UNCHANGED policy
    /\ UNCHANGED <<svcVars, adapterVars, concVars, actorVars, poolVars>>

SpecPolicy == InitPolicy /\ [][SelectAction]_vars

\* the components of an action: its i-th group of 4 bytes
Component(bytes, i) == SubSeq(bytes, 4 * i - 3, 4 * i)

\* C23: select_action returns an error exactly for Discrete(0), for a MultiDiscrete with
\* a zero component, and for a Continuous whose low and high differ in length or have
\* some low[i] >= high[i]; in every other case it returns 4 bytes per component, the
\* i-th decoding (little-endian u32, resp. f32) to a value in [0, n), [0, nvec[i]),
\* resp. [low[i], high[i]).
C23_SelectAction ==
    (selected # None)
    => LET sp == policy.action_space
           illegal ==
              CASE sp.type = "Discrete" -> sp.n = 0
                [] sp.type = "MultiDiscrete" -> \E i \in DOMAIN sp.nvec : sp.nvec[i] = 0
                [] sp.type = "Continuous" ->
                      IF Len(sp.low) # Len(sp.high) THEN TRUE
                      ELSE \E i \in DOMAIN sp.low : f32_ge(sp.low[i], sp.high[i])
       IN  IF illegal THEN ~selected.ok /\ "err" \in DOMAIN selected
           ELSE /\ selected.ok
                /\ CASE sp.type = "Discrete" ->
                          /\ Len(selected.val) = 4
                          /\ u32_from_le_bytes(selected.val) \in 0..(sp.n - 1)
                     [] sp.type = "MultiDiscrete" ->
                          /\ Len(selected.val) = 4 * Len(sp.nvec)
                          /\ \A i \in DOMAIN sp.nvec :
                                u32_from_le_bytes(Component(selected.val, i))
                                   \in 0..(sp.nvec[i] - 1)
                     [] sp.type = "Continuous" ->
                          /\ Len(selected.val) = 4 * Len(sp.low)
                          /\ \A i \in DOMAIN sp.low :
                                LET v == F32(f32_from_le_bytes(Component(selected.val, i)))
                                IN  ~f32_lt(v, sp.low[i]) /\ f32_lt(v, sp.high[i])

\* the claim on the action spaces whose bounds are numbers
SelectActionNoNaN ==
    (policy.action_space.type = "Continuous"
     /\ \E i \in DOMAIN policy.action_space.low : policy.action_space.low[i].nan)
    \/ (policy.action_space.type = "Continuous"
        /\ \E i \in DOMAIN policy.action_space.high : policy.action_space.high[i].nan)
    \/ C23_SelectAction

-----------------------------------------------------------------------------
(* engine-core: the registry under register_game and clear_registry *)

InitRegistry ==
    /\ registry = [x \in EnvIds |-> NoFactory]
    /\ game_cache = [k \in Keys |-> None]
    /\ buffer_pool = with_capacity(0, 0, 0, InitCap)
    /\ initial_stats = stats(buffer_pool)
    /\ last = [op |-> "new", env_id |-> "", factory |-> NoFactory, previous |-> NoFactory,
               latest |-> [x \in EnvIds |-> NoFactory]]
    /\ reset_keys = {}
    /\ indep = [k \in Keys |-> None]
    /\ indep_out = None
    /\ erased = None /\ erased_out = None /\ typed = None /\ typed_out = None
    /\ fresh = None /\ fresh_out = None
    /\ tasks = None /\ cache_lock = None /\ serial = <<>>
    /\ actor = None /\ replay = None /\ flush_timer = None
    /\ policy = None /\ selected = None
    /\ leases = None /\ pool_ops = None

\* register_game(env_id, factory); last.previous is the factory the key had (the warning
\* names the key when it had one), last.latest remembers the factory given last per key
RegisterGame(env_id, factory) ==
    /\ registry' = register_game(registry, env_id, factory)
    /\ last' = [op |-> "register", env_id |-> env_id, factory |-> factory,
                previous |-> registry[env_id],
                latest |-> [last.latest EXCEPT ![env_id] = factory]]
    /\ UNCHANGED <<game_cache, buffer_pool, initial_stats, reset_keys, indep, indep_out>>
    /\ UNCHANGED outsideService

ClearRegistry ==
    /\ registry' = clear_registry(registry)
    /\ last' = [op |-> "clear", env_id |-> "", factory |-> NoFactory, previous |-> NoFactory,
                latest |-> [x \in EnvIds |-> NoFactory]]
    /\ UNCHANGED <<game_cache, buffer_pool, initial_stats, reset_keys, indep, indep_out>>
    /\ UNCHANGED outsideService

NextRegistry ==
    \/ \E env_id \in EnvIds, factory \in Kinds : RegisterGame(env_id, factory)
    \/ ClearRegistry

SpecRegistry == InitRegistry /\ [][NextRegistry]_vars

\* C24: after any registers and clears, for every key k: is_registered(k) iff
\* create_game(k) is Some iff k is in list_registered_games(), where it occurs once and
\* nothing else does; create_game(k) builds the game of the factory registered last for
\* k; and after a clear no key is registered and the list is empty.
C24_RegistryIsMap ==
    /\ \A k \in EnvIds :
          /\ is_registered(registry, k) <=> (create_game(registry, k) # None)
          /\ \A l \in list_registered_games(registry) :
                /\ is_registered(registry, k) <=> (\E i \in DOMAIN l : l[i] = k)
                /\ Cardinality({i \in DOMAIN l : l[i] = k}) <= 1
          /\ is_registered(registry, k) <=> (last.latest[k] # NoFactory)
          /\ (last.latest[k] # NoFactory)
             => create_game(registry, k) = GameAdapter_new(last.latest[k])
    /\ (last.op = "clear")
       => /\ \A k \in EnvIds : ~is_registered(registry, k)
          /\ list_registered_games(registry) = {<<>>}

\* "test" had the TestGame factory and was registered again with the TicTacToe factory,
\* next to a second key
C24_Witness ==
    /\ last.op = "register"
    /\ last.env_id = "test"
    /\ last.previous = "TestGame"
    /\ last.factory = "TicTacToe"
    /\ create_game(registry, "test") = GameAdapter_new("TicTacToe")
    /\ is_registered(registry, "tictactoe")
    /\ <<"tictactoe", "test">> \in list_registered_games(registry)
    /\ ~is_registered(registry, "unknown")

-----------------------------------------------------------------------------
(* engine-server: the BufferPool under concurrent callers, and PooledBuffer *)

\* Callers share one BufferPool.  Every pool operation locks one class, pops or
\* pushes, and unlocks, so it is one step; the steps of the callers interleave.
\* A buffer carries the identity of its allocation in the field id.
Callers == {"c1", "c2"}

Classes == {"state", "obs", "action"}

\* a caller acquires at most this many buffers in all
MaxPoolOps == 2

\* what a caller writes, once, into a buffer it holds
WriteBytes == <<7>>

PrewarmCounts == 0 .. 1

WithId(v, id) == [data |-> v.data, cap |-> v.cap, id |-> id]

Depth(pool, class) ==
    CASE class = "state"  -> stats(pool).available_state_buffers
      [] class = "obs"    -> stats(pool).available_obs_buffers
      [] class = "action" -> stats(pool).available_action_buffers

Stack(pool, class) ==
    CASE class = "state"  -> pool.state_buffers
      [] class = "obs"    -> pool.obs_buffers
      [] class = "action" -> pool.action_buffers

get_buffer(pool, class) ==
    CASE class = "state"  -> get_state_buffer(pool)
      [] class = "obs"    -> get_obs_buffer(pool)
      [] class = "action" -> get_action_buffer(pool)

return_buffer(pool, class, buf) ==
    CASE class = "state"  -> return_state_buffer(pool, buf)
      [] class = "obs"    -> return_obs_buffer(pool, buf)
      [] class = "action" -> return_action_buffer(pool, buf)

\* PooledBuffer::new(buffer, return_fn); return_fn pushes into one class of the pool
PooledBuffer_new(buffer, return_fn) == [buffer |-> buffer, return_fn |-> return_fn]

\* variant: into_inner hands out the buffer and leaves it in the wrapper
into_inner_kept(pb) == [out |-> pb.buffer, self |-> pb]

\* self.buffer.take().expect(..); self is dropped when into_inner returns
into_inner(pb) == [out |-> pb.buffer, self |-> [pb EXCEPT !.buffer = None]]

\* Drop for PooledBuffer
PooledBuffer_drop(pool, pb) ==
    IF pb.buffer # None
    THEN IF pb.return_fn # None
         THEN return_buffer(pool, pb.return_fn.class, pb.buffer)
         ELSE pool
    ELSE pool

\* the buffer a caller holds, bare or wrapped
HeldBuffer(lease) == IF lease.kind = "Vec" THEN lease.buf ELSE lease.pb.buffer

InitPool ==
    /\ registry = [x \in EnvIds |-> NoFactory]
    /\ game_cache = [k \in Keys |-> None]
    /\ \E sc \in PrewarmCounts, oc \in PrewarmCounts, ac \in PrewarmCounts :
         LET pool == with_capacity(sc, oc, ac, InitCap)
         IN  buffer_pool =
               [state_buffers  |-> [i \in 1 .. sc |-> WithId(pool.state_buffers[i], i)],
                obs_buffers    |-> [i \in 1 .. oc |-> WithId(pool.obs_buffers[i], sc + i)],
                action_buffers |-> [i \in 1 .. ac |-> WithId(pool.action_buffers[i], sc + oc + i)]]
    /\ initial_stats = stats(buffer_pool)
    /\ last = [op |-> "new", class |-> "state", caller |-> "c1", buf |-> None,
               before |-> buffer_pool]
    /\ reset_keys = {}
    /\ indep = [k \in Keys |-> None]
    /\ indep_out = None
    /\ erased = None /\ erased_out = None /\ typed = None /\ typed_out = None
    /\ fresh = None /\ fresh_out = None
    /\ tasks = None /\ cache_lock = None /\ serial = <<>>
    /\ actor = None /\ replay = None /\ flush_timer = None
    /\ policy = None /\ selected = None
    /\ leases = [c \in Callers |-> None]
    /\ pool_ops = [releases  |-> [cl \in Classes |-> 0],
                   hits      |-> [cl \in Classes |-> 0],
                   acquired  |-> 0,
                   allocated |-> Depth(buffer_pool, "state") + Depth(buffer_pool, "obs")
                                   + Depth(buffer_pool, "action"),
                   dirty     |-> {},
                   drops     |-> 0]

PoolUnchanged ==
    UNCHANGED <<registry, game_cache, initial_stats, reset_keys, indep, indep_out,
                adapterVars, concVars, actorVars, policyVars>>

Note(op, class, c, buf) ==
    last' = [op |-> op, class |-> class, caller |-> c, buf |-> buf, before |-> buffer_pool]

\* let buf = pool.get_<class>_buffer();
GetBuffer(c, class) ==
    /\ leases[c] = None
    /\ pool_ops.acquired < MaxPoolOps
    /\ \E r \in {get_buffer(buffer_pool, class)} :
         LET hit == Depth(buffer_pool, class) > 0
             buf == IF hit THEN r.buf ELSE WithId(r.buf, pool_ops.allocated + 1)
         IN  /\ buffer_pool' = r.pool
             /\ leases' = [leases EXCEPT ![c] = [kind |-> "Vec", class |-> class, buf |-> buf]]
             /\ pool_ops' = [pool_ops EXCEPT
                               !.acquired = @ + 1,
                               !.hits[class] = IF hit THEN @ + 1 ELSE @,
                               !.allocated = IF hit THEN @ ELSE @ + 1]
             /\ Note("get", class, c, buf)
    /\ PoolUnchanged

\* buf.extend_from_slice(..), on the Vec or through PooledBuffer::as_mut
WriteBuffer(c) ==
    /\ leases[c] # None
    /\ HeldBuffer(leases[c]).data = <<>>
    /\ LET buf == HeldBuffer(leases[c])
           wr  == WithId(extend(buf, WriteBytes), buf.id)
       IN  /\ leases' = [leases EXCEPT ![c] =
                           IF @.kind = "Vec" THEN [@ EXCEPT !.buf = wr]
                           ELSE [@ EXCEPT !.pb.buffer = wr]]
           /\ Note("write", leases[c].class, c, wr)
    /\ UNCHANGED <<buffer_pool, pool_ops>>
    /\ PoolUnchanged

\* pool.return_<class>_buffer(buf);
ReturnBuffer(c) ==
    /\ leases[c] # None
    /\ leases[c].kind = "Vec"
    /\ buffer_pool' = return_buffer(buffer_pool, leases[c].class, leases[c].buf)
    /\ leases' = [leases EXCEPT ![c] = None]
    /\ pool_ops' = [pool_ops EXCEPT
                      !.releases[leases[c].class] = @ + 1,
                      !.dirty = IF leases[c].buf.data # <<>> THEN @ \cup {leases[c].buf.id} ELSE @]
    /\ Note("return", leases[c].class, c, leases[c].buf)
    /\ PoolUnchanged

\* the Vec goes out of scope without being returned
DropVec(c) ==
    /\ leases[c] # None
    /\ leases[c].kind = "Vec"
    /\ leases' = [leases EXCEPT ![c] = None]
    /\ Note("free", leases[c].class, c, leases[c].buf)
    /\ UNCHANGED <<buffer_pool, pool_ops>>
    /\ PoolUnchanged

\* let pooled = PooledBuffer::new(buf, move |b| pool.return_<class>_buffer(b));
NewPooled(c) ==
    /\ leases[c] # None
    /\ leases[c].kind = "Vec"
    /\ leases' = [leases EXCEPT ![c] =
                    [kind |-> "PooledBuffer", class |-> @.class,
                     pb |-> PooledBuffer_new(@.buf, [class |-> @.class])]]
    /\ Note("wrap", leases[c].class, c, leases[c].buf)
    /\ UNCHANGED <<buffer_pool, pool_ops>>
    /\ PoolUnchanged

\* the PooledBuffer goes out of scope: end of block, early return or unwinding
DropPooled(c) ==
    /\ leases[c] # None
    /\ leases[c].kind = "PooledBuffer"
    /\ buffer_pool' = PooledBuffer_drop(buffer_pool, leases[c].pb)
    /\ leases' = [leases EXCEPT ![c] = None]
    /\ pool_ops' = [pool_ops EXCEPT
                      !.drops = @ + 1,
                      !.releases[leases[c].class] = @ + 1,
                      !.dirty = IF leases[c].pb.buffer.data # <<>>
                                THEN @ \cup {leases[c].pb.buffer.id} ELSE @]
    /\ Note("drop", leases[c].class, c, leases[c].pb.buffer)
    /\ PoolUnchanged

\* let buf = pooled.into_inner();
IntoInner(c) ==
    /\ leases[c] # None
    /\ leases[c].kind = "PooledBuffer"
    /\ \E r \in {into_inner(leases[c].pb)} :
         /\ buffer_pool' = PooledBuffer_drop(buffer_pool, r.self)
         /\ leases' = [leases EXCEPT ![c] = [kind |-> "Vec", class |-> @.class, buf |-> r.out]]
         /\ Note("into_inner", leases[c].class, c, r.out)
         /\ UNCHANGED pool_ops
    /\ PoolUnchanged

NextPool ==
    \E c \in Callers :
        \/ \E class \in Classes : GetBuffer(c, class)
        \/ WriteBuffer(c)
        \/ ReturnBuffer(c)
        \/ DropVec(c)
        \/ NewPooled(c)
        \/ DropPooled(c)
        \/ IntoInner(c)

SpecPool == InitPool /\ [][NextPool]_vars

\* the allocations that sit in the pool, one entry per stack position
Pooled == UNION {{<<cl, i>> : i \in 1 .. Depth(buffer_pool, cl)} : cl \in Classes}

PooledId(e) == Stack(buffer_pool, e[1])[e[2]].id

\* the buffer on top of the stack of a class
Top(pool, class) == Stack(pool, class)[Depth(pool, class)]

\* C26: every buffer in the pool, pre-warmed or released, has length zero; a
\* buffer handed out by an acquire has length zero, and is a new buffer without
\* capacity when the stack of its class was empty; a release, direct or through
\* PooledBuffer, pushes the buffer with length zero and its capacity as it was,
\* which is at least the number of bytes the caller had written.
C26_BuffersHandedOutEmpty ==
    /\ \A e \in Pooled : Stack(buffer_pool, e[1])[e[2]].data = <<>>
    /\ last.op = "get" =>
         /\ leases[last.caller] = [kind |-> "Vec", class |-> last.class, buf |-> last.buf]
         /\ last.buf.data = <<>>
         /\ Depth(last.before, last.class) = 0 => last.buf.cap = 0
         /\ Depth(last.before, last.class) > 0 => last.buf = Top(last.before, last.class)
    /\ last.op \in {"return", "drop"} =>
         /\ Top(buffer_pool, last.class).id = last.buf.id
         /\ Top(buffer_pool, last.class).data = <<>>
         /\ Top(buffer_pool, last.class).cap = last.buf.cap
         /\ last.buf.cap >= Len(last.buf.data)

\* a buffer that went back with bytes in it is handed out again, empty and with
\* the capacity the bytes gave it
C26_Witness ==
    /\ last.op = "get"
    /\ last.buf.id \in pool_ops.dirty
    /\ last.buf.data = <<>>
    /\ last.buf.cap >= Len(WriteBytes)
    /\ last.buf.cap < InitCap

\* one class's field of a BufferPoolStats
StatOf(st, class) ==
    CASE class = "state"  -> st.available_state_buffers
      [] class = "obs"    -> st.available_obs_buffers
      [] class = "action" -> st.available_action_buffers

\* the allocations that callers hold
Held == {c \in Callers : leases[c] # None}

\* C27: whatever the interleaving of the callers' acquires and releases, for each
\* class the depth that stats reports is the initial depth plus the releases
\* minus the acquires that found the stack non-empty; no allocation is held by
\* two callers, or held by a caller while it is in the pool, or twice in the
\* pool; an operation on one class leaves the depths of the other classes as
\* they were.
C27_DepthAccounting ==
    /\ \A cl \in Classes :
         StatOf(stats(buffer_pool), cl)
           = StatOf(initial_stats, cl) + pool_ops.releases[cl] - pool_ops.hits[cl]
    /\ \A c \in Held, d \in Held : c # d => HeldBuffer(leases[c]).id # HeldBuffer(leases[d]).id
    /\ \A c \in Held, e \in Pooled : HeldBuffer(leases[c]).id # PooledId(e)
    /\ \A e \in Pooled, f \in Pooled : e # f => PooledId(e) # PooledId(f)
    /\ \A cl \in Classes \ {last.class} : Depth(buffer_pool, cl) = Depth(last.before, cl)

\* two callers took buffers of one class, the first from the stack and the
\* second a new one, and the second released its buffer while the first holds its
C27_Witness ==
    /\ last.op = "return"
    /\ last.caller = "c2"
    /\ leases["c1"] # None
    /\ leases["c1"].class = last.class
    /\ pool_ops.hits[last.class] = 1
    /\ pool_ops.releases[last.class] = 1
    /\ pool_ops.acquired = 2
    /\ Depth(buffer_pool, last.class) = StatOf(initial_stats, last.class)

\* C28: when a PooledBuffer is dropped, its buffer is pushed once onto the stack
\* of the class it came from: that depth grows by one, the buffer is on top and
\* nowhere else, and the caller holds nothing; when into_inner consumed the
\* wrapper, the caller holds the bare buffer, the pool is as it was and the
\* buffer is not in it.
C28_PooledBuffer ==
    /\ last.op = "drop" =>
         /\ Depth(buffer_pool, last.class) = Depth(last.before, last.class) + 1
         /\ Top(buffer_pool, last.class).id = last.buf.id
         /\ Cardinality({e \in Pooled : PooledId(e) = last.buf.id}) = 1
         /\ leases[last.caller] = None
         /\ \A c \in Held : HeldBuffer(leases[c]).id # last.buf.id
    /\ last.op = "into_inner" =>
         /\ buffer_pool = last.before
         /\ leases[last.caller] = [kind |-> "Vec", class |-> last.class, buf |-> last.buf]
         /\ \A e \in Pooled : PooledId(e) # last.buf.id

\* one wrapper was dropped with bytes in its buffer, another was consumed by into_inner
C28_Witness ==
    /\ last.op = "into_inner"
    /\ pool_ops.drops = 1
    /\ pool_ops.dirty # {}
    /\ Depth(buffer_pool, last.class) >= 1

-----------------------------------------------------------------------------
(* games-tictactoe: one game played through Game::reset and Game::step, with *)
(* its codecs applied to the states it reaches                               *)

\* byte strings handed to decode_state: wrong lengths, a valid state, corrupted fields
StateInputs ==
    {<<>>, <<0, 0, 0, 0, 0, 0, 0, 0, 0, 1>>, <<0, 0, 0, 0, 0, 0, 0, 0, 0, 1, 0, 0>>,
     <<1, 0, 0, 0, 2, 0, 0, 0, 0, 1, 0>>, <<0, 0, 0, 0, 0, 0, 0, 0, 0, 3, 0>>,
     <<0, 0, 0, 0, 0, 0, 0, 0, 0, 1, 4>>, <<5, 0, 0, 0, 0, 0, 0, 0, 0, 1, 0>>}

\* byte strings handed to decode_action
ActionBytes == {<<>>, <<4>>, <<8>>, <<9>>, <<1, 2>>}

InitTicTacToe ==
    /\ registry = [x \in EnvIds |-> NoFactory]
    /\ game_cache = [k \in Keys |-> None]
    /\ buffer_pool = with_capacity(0, 0, 0, InitCap)
    /\ initial_stats = stats(buffer_pool)
    /\ last = [op |-> "new", id |-> None, seed |-> NoSeed, code |-> "Ok", resp |-> None,
               before |-> stats(buffer_pool), malformed |-> FALSE]
    /\ reset_keys = {}
    /\ indep = [k \in Keys |-> None]
    /\ indep_out = None
    /\ erased = None /\ erased_out = None
    /\ typed = [kind |-> "TicTacToe", game |-> Game_new("TicTacToe"),
                rng |-> seed_from_u64(0), state |-> None]
    /\ typed_out = [op |-> "new"]
    /\ fresh = None /\ fresh_out = None
    /\ tasks = None /\ cache_lock = None /\ serial = <<>>
    /\ actor = None /\ replay = None /\ flush_timer = None
    /\ policy = None /\ selected = None
    /\ leases = None /\ pool_ops = None

TicTacToeUnchanged ==
    UNCHANGED <<svcVars, concVars, actorVars, policyVars, poolVars,
                erased, erased_out, fresh, fresh_out>>

\* game.reset(&mut rng, &[])
PlayReset ==
    /\ \E r \in {TicTacToe_reset(typed.game, typed.rng, <<>>)} :
         /\ typed' = [typed EXCEPT !.game = r.game, !.rng = r.rng, !.state = r.state]
         /\ typed_out' = [op |-> "reset", obs |-> r.obs]
    /\ TicTacToeUnchanged

\* game.step(&mut state, Action::Place(position), &mut rng)
PlayStep(position) ==
    /\ typed.state # None
    /\ \E r \in {TicTacToe_step(typed.game, typed.state, position, typed.rng)} :
         /\ typed' = [typed EXCEPT !.game = r.game, !.rng = r.rng, !.state = r.state]
         /\ typed_out' = [op |-> "step", before |-> typed.state, position |-> position,
                          obs |-> r.obs, reward |-> r.reward, done |-> r.done]
    /\ TicTacToeUnchanged

\* encode_state and encode_obs of the current state into empty buffers, and
\* decode_state of the state bytes
EncodeCurrent ==
    /\ typed.state # None
    /\ typed_out' = [op |-> "encode",
                     state |-> extend(Vec_new, TicTacToe_encode_state(typed.state).val),
                     obs |-> extend(Vec_new,
                                    TicTacToe_encode_obs(from_state(typed.state)).val),
                     decoded |-> TicTacToe_decode_state(
                                     TicTacToe_encode_state(typed.state).val)]
    /\ UNCHANGED typed
    /\ TicTacToeUnchanged

\* decode_state of any byte string; the codecs of byte strings and of actions take
\* no game and no state, and are applied before the game is played
DecodeState(buf) ==
    /\ typed.state = None
    /\ typed_out' = [op |-> "decode_state", buf |-> buf,
                     decoded |-> TicTacToe_decode_state(buf)]
    /\ UNCHANGED typed
    /\ TicTacToeUnchanged

\* encode_action(Action::Place(position)) into an empty buffer, and decode_action of it
EncodeAction(position) ==
    /\ typed.state = None
    /\ typed_out' = [op |-> "encode_action", position |-> position,
                     encoded |-> TicTacToe_encode_action(position),
                     decoded |-> IF TicTacToe_encode_action(position).ok
                                 THEN TicTacToe_decode_action(
                                          TicTacToe_encode_action(position).val)
                                 ELSE None]
    /\ UNCHANGED typed
    /\ TicTacToeUnchanged

\* decode_action of any byte string
DecodeAction(buf) ==
    /\ typed.state = None
    /\ typed_out' = [op |-> "decode_action", buf |-> buf,
                     decoded |-> TicTacToe_decode_action(buf)]
    /\ UNCHANGED typed
    /\ TicTacToeUnchanged

NextTicTacToe ==
    \/ PlayReset
    \/ \E position \in 0 .. 8 : PlayStep(position)
    \/ EncodeCurrent
    \/ \E buf \in StateInputs : DecodeState(buf)
    \/ \E position \in 0 .. 9 : EncodeAction(position)
    \/ \E buf \in ActionBytes : DecodeAction(buf)

SpecTicTacToe == InitTicTacToe /\ [][NextTicTacToe]_vars

\* C29: a step on an occupied cell or on a finished game leaves board,
\* current_player and winner as they were, and returns like any other step: the
\* observation of the unchanged state and its done flag.
C29_IllegalMoveNoOp ==
    (/\ typed_out.op = "step"
     /\ \/ is_done(typed_out.before)
        \/ typed_out.before.board[typed_out.position + 1] # 0) =>
            /\ typed.state.board = typed_out.before.board
            /\ typed.state.current_player = typed_out.before.current_player
            /\ typed.state.winner = typed_out.before.winner
            /\ typed_out.obs = from_state(typed_out.before)
            /\ typed_out.done = is_done(typed_out.before)

\* a step on an empty cell of a game that O has won
C29_Witness ==
    /\ typed_out.op = "step"
    /\ typed_out.before.winner = 2
    /\ typed_out.before.board[typed_out.position + 1] = 0
    /\ typed.state = typed_out.before

\* C30: encode_state of a reachable state into an empty buffer gives 11 bytes
\* that decode_state turns back into the state, and its encoded observation
\* has 116 bytes; encode_action of Place(p), p in 0..8, gives one byte that
\* decode_action turns back into Place(p); decode_state answers InvalidLength
\* exactly to the inputs whose length is not 11, decode_action exactly to those
\* whose length is not 1.
C30_Codecs ==
    /\ typed_out.op = "encode" =>
         /\ Len(typed_out.state.data) = 11
         /\ typed_out.decoded = Ok(typed.state)
         /\ Len(typed_out.obs.data) = 116
    /\ (typed_out.op = "encode_action" /\ typed_out.position \in 0 .. 8) =>
         /\ typed_out.encoded.ok
         /\ Len(typed_out.encoded.val) = 1
         /\ typed_out.decoded = Ok(typed_out.position)
    /\ typed_out.op = "decode_state" =>
         (Len(typed_out.buf) # 11 <=> typed_out.decoded = Err("InvalidLength"))
    /\ typed_out.op = "decode_action" =>
         (Len(typed_out.buf) # 1 <=> typed_out.decoded = Err("InvalidLength"))

\* the state of a drawn game went through encode_state and decode_state
C30_Witness ==
    /\ typed_out.op = "encode"
    /\ typed.state.winner = 3
    /\ typed_out.decoded = Ok(typed.state)
    /\ typed_out.state.data = typed.state.board \o <<typed.state.current_player, 3>>

-----------------------------------------------------------------------------
(* The transitions of one episode *)

\* every transition the actor constructed, wherever it is now
AllTransitions ==
    LET batches == <<actor.transition_buffer, replay.in_flight>>
                     \o replay.stored \o ReportedBatches
    IN  UNION {{batches[b][i] : i \in DOMAIN batches[b]} : b \in DOMAIN batches}

\* C31: the transitions of one episode carry step_number 0, 1, 2, ... in the order
\* of their construction; the first has the state and the observation of the Reset
\* response, every later one the next_state and next_observation of the one before
\* it; a Step request carries the state of the response that preceded it; and no
\* Step follows a response with done, so a done transition is the last of its episode.
C31_EpisodeChain ==
    /\ \A t \in AllTransitions :
          /\ IF t.step_number = 0
             THEN \E i \in DOMAIN actor.reset_data :
                     /\ actor.reset_data[i].run = t.run
                     /\ t.state = actor.reset_data[i].state
                     /\ t.observation = actor.reset_data[i].obs
             ELSE \E u \in AllTransitions :
                     /\ u.run = t.run
                     /\ u.step_number = t.step_number - 1
                     /\ u.n = t.n - 1
                     /\ ~u.done
                     /\ t.state = u.next_state
                     /\ t.observation = u.next_observation
          /\ \A u \in AllTransitions :
                (u.run = t.run /\ u.step_number = t.step_number) => u = t
          /\ t.done => \A u \in AllTransitions : u.run = t.run => u.step_number <= t.step_number
    /\ actor.request # None =>
          /\ actor.request.state = EngineState(actor.request.after)
          /\ \A t \in AllTransitions :
                (t.run = actor.request.run /\ t.step_number < actor.request.step_number)
                    => ~t.done
          /\ \A t \in AllTransitions :
                (t.run = actor.request.run /\ t.step_number + 1 = actor.request.step_number)
                    => actor.request.state = t.next_state

\* the second episode ended with its second step, which started from the response
\* to its first
C31_Witness ==
    \E t \in AllTransitions, u \in AllTransitions :
        /\ t.run = 2 /\ u.run = 2
        /\ u.step_number = 0 /\ ~u.done
        /\ t.step_number = 1 /\ t.done
        /\ t.state = u.next_state
        /\ t.state # u.state
        /\ actor.request.step_number = 1
        /\ actor.episode_count = 2

-----------------------------------------------------------------------------
(* The course of a tic-tac-toe game *)

\* the cells that hold a mark: one per legal move since the reset
Marks(s) == Cardinality({c \in 1..9 : s.board[c] # 0})

\* player holds the three cells of a line
HasLine(board, player) ==
    \E i \in 1..8 : \A j \in 1..3 : board[LINES[i][j] + 1] = player

\* C32: a game holds one mark per legal move, never more than max_horizon = 9,
\* and is done with 9; done is returned exactly when winner # 0; a legal move adds one mark
\* of the player to move; if it completes a line the winner is that player, else
\* if it fills the board the winner is draw (3), else there is no winner and the
\* other player is to move.
C32_GameTerminates ==
    /\ typed.state # None =>
          /\ Marks(typed.state) <= capabilities(typed.kind).max_horizon
          /\ Marks(typed.state) = capabilities(typed.kind).max_horizon => is_done(typed.state)
          /\ is_done(typed.state) <=>
                \/ HasLine(typed.state.board, 1)
                \/ HasLine(typed.state.board, 2)
                \/ Marks(typed.state) = 9
    /\ typed_out.op = "step" =>
          /\ typed_out.done <=> typed.state.winner # 0
          /\ (~is_done(typed_out.before) /\ typed_out.before.board[typed_out.position + 1] = 0) =>
                LET mover == typed_out.before.current_player
                IN  /\ Marks(typed.state) = Marks(typed_out.before) + 1
                    /\ typed.state.board[typed_out.position + 1] = mover
                    /\ typed.state.winner =
                          IF HasLine(typed.state.board, mover) THEN mover
                          ELSE IF Marks(typed.state) = 9 THEN 3 ELSE 0
                    /\ typed.state.winner = 0 => typed.state.current_player = 3 - mover

\* the ninth legal move filled the board without a line
C32_Witness ==
    /\ typed_out.op = "step"
    /\ ~is_done(typed_out.before)
    /\ Marks(typed.state) = 9
    /\ typed.state.winner = 3
    /\ typed_out.done

-----------------------------------------------------------------------------
(* The random policy against the tic-tac-toe decoder *)

\* C33: every action that select_action returns for the action space tic-tac-toe
\* advertises, Discrete(9), is accepted by the tic-tac-toe action decoder, and a
\* step of the adapter on the reset state with it does not fail.
C33_PolicyActionAccepted ==
    (/\ selected # None
     /\ policy.action_space.type = "Discrete"
     /\ capabilities("TicTacToe").action_space = <<"Discrete", policy.action_space.n>>) =>
        /\ selected.ok
        /\ decode_action("TicTacToe", selected.val).ok
        /\ LET r == GameAdapter_reset(GameAdapter_new("TicTacToe"), 42, <<>>, Vec_new, Vec_new)
           IN  GameAdapter_step(r.inst, r.out_state.data, selected.val, Vec_new, Vec_new).res.ok

-----------------------------------------------------------------------------
(* Concurrent Resets of a slot that is not cached yet *)

\* the calls that took the lock for a key, in the order they took it
CallsOn(key) ==
    {n \in DOMAIN serial :
        key = (IF serial[n].op = "Reset" THEN reset_key(serial[n].req.id)
               ELSE step_key(serial[n].req.id))}

\* C34: of the Resets that wait for the same vacant slot only the one that takes
\* the lock first creates an instance; every later call on the key finds the
\* slot occupied and is served by the instance it finds there, which is the
\* instance that the call before it on that key left; while a call is inside, the
\* cache holds the instance it works on.
C34_OneInstancePerKey ==
    /\ \A key \in Keys :
          /\ Cardinality({n \in CallsOn(key) :
                             serial[n].found = None /\ serial[n].used # None})
                = (IF game_cache[key] = None THEN 0 ELSE 1)
          /\ \A n \in CallsOn(key) :
                /\ (serial[n].found # None) => (serial[n].used = serial[n].found)
                /\ (serial[n].found = None /\ serial[n].used # None) =>
                      /\ serial[n].op = "Reset"
                      /\ serial[n].used = create_game(registry, key[1])
                      /\ \A m \in CallsOn(key) : (m < n) => (serial[m].used = None)
    /\ \A q \in Tasks :
          (tasks[q].pc = "inside") => (tasks[q].game = game_cache[task_key(tasks[q])])

\* two Resets waited for the same vacant slot; the first to take the lock created
\* the instance, the second was served by it, and so was the Step after them
C34_Witness ==
    /\ Len(serial) = 3
    /\ serial[1].op = "Reset" /\ serial[2].op = "Reset" /\ serial[3].op = "Step"
    /\ serial[1].rivals # {}
    /\ serial[2].task \in serial[1].rivals
    /\ serial[1].found = None /\ serial[1].used # None
    /\ serial[2].found # None /\ serial[2].used = serial[2].found
    /\ CallsOn(reset_key(serial[1].req.id)) = {1, 2, 3}
    /\ serial[3].found # None
    /\ serial[3].out # None
    /\ serial[3].out.code = "Ok"

-----------------------------------------------------------------------------
(* The cache lock is released on every path *)

\* the requests of the fair runs: on one slot of "rng-test" a Reset, a Step and a Step
\* with a state that does not decode, and the Reset of an unregistered environment
FairRequests ==
    {c \in ConcRequests : c.req.id.build_id = "b1" /\ (c.op = "Reset" => c.req.seed = 42)}

NextConcFair ==
    \/ \E p \in Tasks, c \in FairRequests : ConcCall(p, c)
    \/ \E p \in Tasks : ConcAcquire(p)
    \/ \E p \in Tasks : ConcRelease(p)
    \/ \E p \in Tasks : ConcRespond(p)

\* SpecConc with the scheduling of the runtime: a handler that waits for the free lock
\* gets it and a handler that has its result responds (the tokio Mutex serves its
\* waiters in turn, which is more than this); and the erased reset or step that a
\* handler runs under the lock is synchronous and returns
SpecConcFair ==
    /\ InitConc
    /\ [][NextConcFair]_vars
    /\ \A p \in Tasks :
          /\ WF_vars(ConcAcquire(p))
          /\ WF_vars(ConcRespond(p))
          /\ []<>(tasks[p].pc # "inside")

\* the lock is held exactly while its holder is inside an instance
LockHeldOnlyInside ==
    /\ (cache_lock # None) => (tasks[cache_lock.task].pc = "inside")
    /\ \A p \in Tasks :
          (tasks[p].pc \in {"idle", "wait", "respond"}) => (cache_lock # [task |-> p])

\* C35: a Reset or Step holds the cache lock only while it is inside an instance:
\* whatever it returns (Ok, NotFound, FailedPrecondition, Internal) it has
\* released the lock; and every call that waits for the lock gets it and completes.
C35_LockReleased ==
    /\ []LockHeldOnlyInside
    /\ \A p \in Tasks : (tasks[p].pc = "wait") ~> (tasks[p].pc = "idle")

\* calls have returned NotFound, Internal and Ok, and the lock is free
C35_Witness ==
    /\ Len(serial) = 3
    /\ \E a \in 1..3, b \in 1..3, c \in 1..3 :
          /\ serial[a].out = [code |-> "NotFound", resp |-> None]
          /\ serial[b].out = [code |-> "Internal", resp |-> None]
          /\ serial[c].out # None
          /\ serial[c].out.code = "Ok"
    /\ cache_lock = None
    /\ \A p \in Tasks : tasks[p].pc = "idle"

-----------------------------------------------------------------------------
(* A Reset whose erased reset fails *)

\* a service on which "test" is registered with an environment whose reset cannot
\* encode its state
InitFailingReset ==
    /\ registry = [x \in EnvIds |-> IF x = "test" THEN "UnencodableGame" ELSE NoFactory]
    /\ game_cache = [k \in Keys |-> None]
    /\ \E n \in {0, MaxPool} : buffer_pool = with_capacity(n, n, n, InitCap)
    /\ initial_stats = stats(buffer_pool)
    /\ last = [op |-> "new", id |-> None, seed |-> NoSeed, code |-> "Ok", resp |-> None,
               before |-> stats(buffer_pool), malformed |-> FALSE]
    /\ reset_keys = {}
    /\ indep = [k \in Keys |-> None]
    /\ indep_out = None
    /\ erased = None /\ erased_out = None /\ typed = None /\ typed_out = None
    /\ fresh = None /\ fresh_out = None
    /\ tasks = None /\ cache_lock = None /\ serial = <<>>
    /\ actor = None /\ replay = None /\ flush_timer = None
    /\ policy = None /\ selected = None
    /\ leases = None /\ pool_ops = None

\* its clients send Resets, and Steps with a state it decodes or with one it does not
NextFailingReset ==
    \/ \E id \in RequestIds, seed \in Seeds, hint \in Hints : Reset(id, seed, hint)
    \/ \E id \in RequestIds, state \in {<<0>>, <<1>>, <<1, 2, 3>>}, action \in {<<2>>} :
          Step(id, state, action)

SpecFailingReset == InitFailingReset /\ [][NextFailingReset]_vars

\* C36: a Reset that finds its slot empty, creates the instance and fails in the
\* erased reset returns Internal and leaves the instance in the slot; a Step on a
\* slot that holds an instance is never answered with FailedPrecondition, and is
\* served by the instance when its state and action decode.
C36_FailedResetInstalls ==
    [][\A id \in EngineIds :
          /\ (/\ last'.op = "Reset" /\ last'.id = id
              /\ game_cache[reset_key(id)] = None
              /\ is_registered(registry, id.env_id)) =>
                 /\ last'.code = "Internal"
                 /\ game_cache'[reset_key(id)] # None
                 /\ game_cache'[reset_key(id)].kind = registry[id.env_id]
          /\ (/\ last'.op = "Step" /\ last'.id = id
              /\ game_cache[step_key(id)] # None) =>
                 /\ last'.code # "FailedPrecondition"
                 /\ last'.malformed \/ last'.code = "Ok"]_vars

\* a Step was served on a slot whose only Resets failed
C36_Witness ==
    /\ last.op = "Step"
    /\ last.code = "Ok"
    /\ last.resp.state = <<1>>
    /\ game_cache[step_key(last.id)] # None
    /\ stats(buffer_pool) # initial_stats

-----------------------------------------------------------------------------
(* A failed flush inside an episode *)

\* the last transition of a batch
LastOf(batch) == batch[Len(batch)]

\* the batches that a flush inside an episode failed to store
EpisodeFailures == {i \in DOMAIN replay.reported : replay.reported[i].by = "episode"}

\* C37: when the flush that a full buffer triggers inside an episode fails, run_episode
\* returns the error at that step, after the Step that filled the buffer has succeeded:
\* the main loop gets control with the episode count as it was and run() not returned,
\* and no Step request of that episode follows the one whose transition filled the buffer.
C37_FailedEpisodeFlush ==
    /\ [][(/\ actor.pc = "store_batch"
           /\ actor.ret = "episode"
           /\ Len(replay'.reported) > Len(replay.reported))
          => /\ actor'.pc = "loop"
             /\ actor'.result = "none"
             /\ actor'.episode_count = actor.episode_count
             /\ actor'.request = actor.request
             /\ actor.request.run = actor.started
             /\ actor.request.step_number = LastOf(replay.in_flight).step_number
             /\ actor.responses = actor.request.after + 1]_vars
    /\ [](\A i \in EpisodeFailures :
             LET t == LastOf(replay.reported[i].batch)
             IN  /\ (actor.pc = "step") => (actor.started # t.run)
                 /\ (actor.request # None /\ actor.request.run = t.run)
                    => (actor.request.step_number <= t.step_number))

\* a flush inside the first episode failed on a step that was not the episode's last, and
\* the main loop went on to a second episode, whose Step was issued with the episode
\* count still 0
C37_Witness ==
    /\ \E i \in EpisodeFailures :
          /\ LastOf(replay.reported[i].batch).run = 1
          /\ ~LastOf(replay.reported[i].batch).done
    /\ actor.started = 2
    /\ actor.episode_count = 0
    /\ actor.request # None
    /\ actor.request.run = 2

-----------------------------------------------------------------------------
(* The transitions of an abandoned episode *)

\* the Step call of an episode failed or timed out
StepFails ==
    /\ actor.pc = "step"
    /\ actor'.pc = "loop"
    /\ actor'.episode_count = actor.episode_count

\* a flush sends its StoreBatch request
FlushSends == actor.pc # "store_batch" /\ actor'.pc = "store_batch"

\* every transition constructed so far is in one of these batches
AllSent(batches) ==
    \A n \in 1..actor.constructed : Places(n, batches) # {}

\* C38: a Step that fails or times out leaves the buffer as it is, with the transitions
\* the abandoned episode pushed before; the next flush, whichever trigger it has, sends
\* all of the buffer, these transitions included, so once run() has returned every
\* transition, of an abandoned episode or not, has gone out in a StoreBatch request.
C38_AbandonedTransitionsKept ==
    /\ [][/\ StepFails => actor'.transition_buffer = actor.transition_buffer
          /\ FlushSends =>
                /\ actor'.ret \in {"episode", "timer", "final"}
                /\ Len(replay'.in_flight) >= Len(actor.transition_buffer)
                /\ \A i \in DOMAIN actor.transition_buffer :
                      replay'.in_flight[i] = actor.transition_buffer[i]
                /\ actor'.transition_buffer = <<>>]_vars
    /\ []((actor.pc = "returned") => AllSent(replay.stored \o ReportedBatches))

\* the first episode pushed a transition and then failed at its second Step; the
\* transition stayed and was stored in one batch with the first transition of the
\* second episode
C38_Witness ==
    \E b \in DOMAIN replay.stored :
       /\ Len(replay.stored[b]) = 2
       /\ replay.stored[b][1].run = 1
       /\ ~replay.stored[b][1].done
       /\ replay.stored[b][2].run = 2
       /\ replay.stored[b][2].episode = replay.stored[b][1].episode

-----------------------------------------------------------------------------
(* Transition ids *)

\* C39: no two transitions that one actor constructs carry the same id, also when
\* an episode follows a failed one and so has the same episode index.
C39_TransitionIdsUnique ==
    \A t \in AllTransitions, u \in AllTransitions : (t.id = u.id) => (t.n = u.n)

-----------------------------------------------------------------------------
(* The size of the buffer and of a batch *)

\* every batch that went out in a StoreBatch request
SentBatches == <<replay.in_flight>> \o replay.stored \o ReportedBatches

\* C40: the buffer of run(), empty at the start, never holds more than batch_size
\* transitions (neither at an await nor at the push that triggers a flush), it holds
\* fewer than batch_size whenever a Step request is issued or awaited, and every
\* StoreBatch request carries at least 1 and at most batch_size transitions.
C40_BufferBounded ==
    /\ Len(actor.transition_buffer) <= actor.config.batch_size
    /\ Len(actor.flush_entry) <= actor.config.batch_size
    /\ (actor.pc = "step") => Len(actor.transition_buffer) < actor.config.batch_size
    /\ (actor.pc = "store_batch") => replay.in_flight # <<>>
    /\ \A b \in DOMAIN SentBatches :
          /\ Len(SentBatches[b]) <= actor.config.batch_size
          /\ (b > 1) => Len(SentBatches[b]) >= 1

\* with batch_size 2, a flush of the timer stored a batch of one transition, and the
\* push of the third transition filled the buffer, which went out as a batch of two
C40_Witness ==
    /\ actor.config.batch_size = 2
    /\ actor.constructed = 3
    /\ Len(replay.stored) = 2
    /\ Len(replay.stored[1]) = 1
    /\ Len(replay.stored[2]) = 2
    /\ actor.flush_entry = replay.stored[2]
    /\ actor.ret = "episode"

====
